---- MODULE Spec2Model ----
(***************************************************************************)
(* A model of the minato SQL drivers (packages/sqlite, packages/mysql) and *)
(* of the filter compiler of sql-utils (Builder.parseQuery).               *)
(*                                                                         *)
(* The table modelled is bar(id unsigned autoInc primary, text string,     *)
(* num integer): the types for which the Caster registers no plugin, so    *)
(* that dump and load leave the values as they are (Caster.dump/load pass  *)
(* a value through when no converter is registered).                       *)
(***************************************************************************)
EXTENDS Integers, Sequences, FiniteSets, TLC

(***************************************************************************)
(* Bounds                                                                  *)
(***************************************************************************)
\* the primary keys of the model are 1 .. MaxId
MaxId == 2

(***************************************************************************)
(* Values, rows, objects                                                   *)
(***************************************************************************)
\* JS null / SQL NULL
Null == -1

\* Object.keys(model.fields), in declaration order
FieldOrder == <<"id", "text", "num">>

Fields == {"id", "text", "num"}

\* model.primary
Primary == "id"

Ids == 1 .. MaxId

\* the values of column text: NULL, the field's initial value 0, another
\* value 1; column num holds no NULL in this model
Vals == {Null, 0, 1}

NumVals == {0, 1}

\* the rows a table can hold
Rows == [id : Ids, text : Vals, num : NumVals]

\* JS objects over the model's fields: functions from a subset of Fields
Has(obj, f) == f \in DOMAIN obj

\* { ...a, ...b }
Merge(a, b) ==
    [f \in (DOMAIN a) \cup (DOMAIN b) |-> IF f \in DOMAIN b THEN b[f] ELSE a[f]]

\* pick(obj, keys)
Pick(obj, keys) == [f \in (DOMAIN obj) \cap keys |-> obj[f]]

Range(s) == {s[i] : i \in 1 .. Len(s)}

\* array.map(F)
RECURSIVE MapSeq(_, _)
MapSeq(F(_), s) ==
    IF s = <<>> THEN <<>> ELSE <<F(Head(s))>> \o MapSeq(F, Tail(s))

SetMax(S) == IF S = {} THEN 0 ELSE CHOOSE m \in S : \A x \in S : x <= m

\* Model.create(data): the non-primary fields' initial values, overridden
\* by data
ModelCreate(data) == Merge([f \in {"text", "num"} |-> 0], data)

\* executeUpdate(data, update, ref) for an update holding constants
ExecuteUpdate(data, update) == Merge(data, update)

(***************************************************************************)
(* Queries (Query.Expr and Query.FieldExpr)                                *)
(*                                                                         *)
(* Every node is a record [t, key, v, vals, kids].                         *)
(*   Query.Expr   t = "expr", kids = its entries in key order; an entry    *)
(*                has t = "$not" (one kid, an expr), "$and" / "$or" (kids  *)
(*                are exprs) or "field" (key, one kid: a field query)      *)
(*   FieldExpr    t = "array" (vals), "scalar" (v), "null", or "object"    *)
(*                whose kids are operator entries: t = "$eq" .. "$lte"     *)
(*                (v), "$in" / "$nin" (vals), "$exists" (v = 1 or 0),      *)
(*                "$not" (one kid), "$and" / "$or" (kids)                  *)
(***************************************************************************)
Node(t, key, v, vals, kids) ==
    [t |-> t, key |-> key, v |-> v, vals |-> vals, kids |-> kids]

QExpr(entries) == Node("expr", "", 0, <<>>, entries)
QNot(q) == Node("$not", "", 0, <<>>, <<q>>)
QAnd(qs) == Node("$and", "", 0, <<>>, qs)
QOr(qs) == Node("$or", "", 0, <<>>, qs)
QField(key, fq) == Node("field", key, 0, <<>>, <<fq>>)
FArray(vals) == Node("array", "", 0, vals, <<>>)
FScalar(v) == Node("scalar", "", v, <<>>, <<>>)
FNull == Node("null", "", 0, <<>>, <<>>)
FObject(ops) == Node("object", "", 0, <<>>, ops)
FOp(op, v) == Node(op, "", v, <<>>, <<>>)
FOpList(op, vals) == Node(op, "", 0, vals, <<>>)
FOpKids(op, kids) == Node(op, "", 0, <<>>, kids)

\* the field query a plain JS value stands for: null, or a number
FValue(v) == IF v = Null THEN FNull ELSE FScalar(v)

(***************************************************************************)
(* Compiled filters: the SQL text parseQuery returns, as a syntax tree.    *)
(* s = "0" and s = "1" are the strings '0' and '1'.                        *)
(***************************************************************************)
Sql(s, key, op, v, vals, kids) ==
    [s |-> s, key |-> key, op |-> op, v |-> v, vals |-> vals, kids |-> kids]

Sql0 == Sql("0", "", "", 0, <<>>, <<>>)
Sql1 == Sql("1", "", "", 0, <<>>, <<>>)
SqlCmp(key, op, v) == Sql("cmp", key, op, v, <<>>, <<>>)
SqlIn(key, notStr, vals) == Sql("in", key, notStr, 0, vals, <<>>)
SqlIsNull(key, notStr) == Sql("isnull", key, notStr, 0, <<>>, <<>>)
SqlNot(c) == Sql("not", "", "", 0, <<>>, <<c>>)
SqlAnd(cs) == Sql("and", "", "", 0, <<>>, cs)
SqlOr(cs) == Sql("or", "", "", 0, <<>>, cs)

RECURSIVE FlattenAnd(_)
\* 'a AND b' joined with 'c' is the text 'a AND b AND c'
FlattenAnd(cs) ==
    IF cs = <<>> THEN <<>>
    ELSE (IF Head(cs).s = "and" THEN Head(cs).kids ELSE <<Head(cs)>>)
         \o FlattenAnd(Tail(cs))

\* logicalAnd with the constant of the empty conjunction mistaken
LogicalAndEmptyIsZero(conditions) ==
    IF Len(conditions) = 0 THEN Sql0
    ELSE IF \E i \in 1 .. Len(conditions) : conditions[i] = Sql0 THEN Sql0
    ELSE IF Len(conditions) = 1 THEN conditions[1]
    ELSE SqlAnd(FlattenAnd(conditions))

\* Builder.logicalAnd
LogicalAnd(conditions) ==
    IF Len(conditions) = 0 THEN Sql1
    ELSE IF \E i \in 1 .. Len(conditions) : conditions[i] = Sql0 THEN Sql0
    ELSE IF Len(conditions) = 1 THEN conditions[1]
    ELSE SqlAnd(FlattenAnd(conditions))

\* logicalOr with the constant of the empty disjunction mistaken
LogicalOrEmptyIsOne(conditions) ==
    IF Len(conditions) = 0 THEN Sql1
    ELSE IF \E i \in 1 .. Len(conditions) : conditions[i] = Sql1 THEN Sql1
    ELSE SqlOr(conditions)

\* Builder.logicalOr
LogicalOr(conditions) ==
    IF Len(conditions) = 0 THEN Sql0
    ELSE IF \E i \in 1 .. Len(conditions) : conditions[i] = Sql1 THEN Sql1
    ELSE SqlOr(conditions)

\* Builder.logicalNot
LogicalNot(condition) == SqlNot(condition)

\* Builder.createMemberQuery
CreateMemberQuery(key, value, notStr) ==
    IF Len(value) = 0 THEN (IF notStr = "NOT" THEN Sql1 ELSE Sql0)
    ELSE SqlIn(key, notStr, value)

\* Builder.createNullQuery
CreateNullQuery(key, value) == SqlIsNull(key, IF value THEN "NOT" ELSE "")

\* Builder.comparator
Comparator(operator, key, value) == SqlCmp(key, operator, value)

\* the keys of Builder.queryOperators that the model covers
QueryOperators ==
    {"$or", "$and", "$not", "$exists", "$eq", "$ne", "$gt", "$gte", "$lt", "$lte",
     "$in", "$nin"}

RECURSIVE ParseFieldQuery(_, _)
RECURSIVE QueryOperator(_, _)

\* Builder.queryOperators[prop](key, value)
QueryOperator(key, e) ==
    CASE e.t = "$or" ->
           LogicalOr(MapSeq(LAMBDA value : ParseFieldQuery(key, value), e.kids))
      [] e.t = "$and" ->
           LogicalAnd(MapSeq(LAMBDA value : ParseFieldQuery(key, value), e.kids))
      [] e.t = "$not" -> LogicalNot(ParseFieldQuery(key, e.kids[1]))
      [] e.t = "$exists" -> CreateNullQuery(key, e.v = 1)
      [] e.t = "$eq" -> Comparator("=", key, e.v)
      [] e.t = "$ne" -> Comparator("!=", key, e.v)
      [] e.t = "$gt" -> Comparator(">", key, e.v)
      [] e.t = "$gte" -> Comparator(">=", key, e.v)
      [] e.t = "$lt" -> Comparator("<", key, e.v)
      [] e.t = "$lte" -> Comparator("<=", key, e.v)
      [] e.t = "$in" -> CreateMemberQuery(key, e.vals, "")
      [] e.t = "$nin" -> CreateMemberQuery(key, e.vals, "NOT")

\* Builder.parseFieldQuery
ParseFieldQuery(key, query) ==
    LogicalAnd(
      CASE query.t = "array" -> <<CreateMemberQuery(key, query.vals, "")>>
        [] query.t = "scalar" -> <<Comparator("=", key, query.v)>>
        [] query.t = "null" -> <<CreateNullQuery(key, FALSE)>>
        [] query.t = "object" ->
             MapSeq(LAMBDA e : QueryOperator(key, e),
                    SelectSeq(query.kids, LAMBDA e : e.t \in QueryOperators)))

RECURSIVE ParseQuery(_)
\* Builder.parseQuery
ParseQuery(query) ==
    LogicalAnd(MapSeq(
      LAMBDA e :
        CASE e.t = "$not" -> LogicalNot(ParseQuery(e.kids[1]))
          [] e.t = "$and" -> LogicalAnd(MapSeq(LAMBDA q : ParseQuery(q), e.kids))
          [] e.t = "$or" -> LogicalOr(MapSeq(LAMBDA q : ParseQuery(q), e.kids))
          [] e.t = "field" -> ParseFieldQuery(e.key, e.kids[1]),
      query.kids))

(***************************************************************************)
(* The SQL engine: three-valued evaluation of a WHERE clause on a row.     *)
(***************************************************************************)
Not3(a) == CASE a = "T" -> "F" [] a = "F" -> "T" [] OTHER -> "U"

And3(S) == IF "F" \in S THEN "F" ELSE IF "U" \in S THEN "U" ELSE "T"

Or3(S) == IF "T" \in S THEN "T" ELSE IF "U" \in S THEN "U" ELSE "F"

Bool3(b) == IF b THEN "T" ELSE "F"

Compare(op, a, b) ==
    CASE op = "=" -> a = b
      [] op = "!=" -> a # b
      [] op = ">" -> a > b
      [] op = ">=" -> a >= b
      [] op = "<" -> a < b
      [] op = "<=" -> a <= b

RECURSIVE SqlEval(_, _)
SqlEval(f, row) ==
    CASE f.s = "0" -> "F"
      [] f.s = "1" -> "T"
      [] f.s = "cmp" ->
           IF row[f.key] = Null \/ f.v = Null THEN "U"
           ELSE Bool3(Compare(f.op, row[f.key], f.v))
      [] f.s = "in" ->
           IF row[f.key] = Null THEN "U"
           ELSE IF f.op = "NOT" THEN Bool3(row[f.key] \notin Range(f.vals))
           ELSE Bool3(row[f.key] \in Range(f.vals))
      [] f.s = "isnull" ->
           IF f.op = "NOT" THEN Bool3(row[f.key] # Null)
           ELSE Bool3(row[f.key] = Null)
      [] f.s = "not" -> Not3(SqlEval(f.kids[1], row))
      [] f.s = "and" -> And3({SqlEval(f.kids[i], row) : i \in 1 .. Len(f.kids)})
      [] f.s = "or" -> Or3({SqlEval(f.kids[i], row) : i \in 1 .. Len(f.kids)})
      [] f.s = "orjoin" -> Or3({SqlEval(f.kids[i], row) : i \in 1 .. Len(f.kids)})

\* the rows a WHERE clause selects
Where(rows, filter) == {r \in rows : SqlEval(filter, r) = "T"}

(***************************************************************************)
(* The SQL engine: statements on table bar.  A database is                 *)
(* [rows, seq]: the rows and the largest id the auto-increment sequence    *)
(* has handed out or seen.  A statement either takes effect as a whole or  *)
(* fails and changes nothing.                                              *)
(***************************************************************************)
Db(rows, seq) == [rows |-> rows, seq |-> seq]

EmptyObj == [f \in {} |-> 0]

\* the rows of a set, ordered by rowid
RECURSIVE SortById(_)
SortById(S) ==
    IF S = {} THEN <<>>
    ELSE LET r == CHOOSE x \in S : \A y \in S : x.id <= y.id
         IN <<r>> \o SortById(S \ {r})

\* the id the engine's sequence assigns next
NextAutoId(db) == SetMax({db.seq} \cup {r.id : r \in db.rows}) + 1

\* SELECT * FROM bar WHERE filter
EngSelect(db, filter) == Where(db.rows, filter)

\* DELETE FROM bar WHERE filter
EngDelete(db, filter) == Db(db.rows \ Where(db.rows, filter), db.seq)

\* UPDATE bar SET assignment WHERE filter: fails on a NULL or duplicate
\* primary key
EngUpdate(db, assignment, filter) ==
    LET hit == Where(db.rows, filter)
        upd(r) == IF r \in hit THEN Merge(r, assignment) ELSE r
        bad == \/ \E r \in db.rows : upd(r).id = Null
               \/ \E r1, r2 \in db.rows : r1 # r2 /\ upd(r1).id = upd(r2).id
    IN IF bad THEN [db |-> db, ok |-> FALSE]
       ELSE [db |-> Db({upd(r) : r \in db.rows}, db.seq), ok |-> TRUE]

\* INSERT INTO bar (keys of data) VALUES (...): a column left out takes its
\* DEFAULT (the field's initial value), an id left out or NULL is assigned
\* by the sequence; fails on a duplicate primary key
EngInsert(db, data) ==
    LET auto == ~Has(data, "id") \/ data["id"] = Null
        id == IF auto THEN NextAutoId(db) ELSE data["id"]
        row == [f \in Fields |-> IF f = "id" THEN id
                                 ELSE IF Has(data, f) THEN data[f] ELSE 0]
    IN IF \E r \in db.rows : r.id = id
       THEN [db |-> db, ok |-> FALSE, id |-> 0]
       ELSE [db |-> Db(db.rows \cup {row}, SetMax({db.seq, id})),
             ok |-> TRUE, id |-> id]

(***************************************************************************)
(* What a driver operation leaves behind: the database, whether it         *)
(* resolved (ok) or rejected, the statements it submitted, the rows a get  *)
(* returned and the object a create returned.                              *)
(***************************************************************************)
Res(db, ok, stmts, got, ret) ==
    [db |-> db, ok |-> ok, stmts |-> stmts, got |-> got, ret |-> ret]

\* the fields named by the keys of an object, in order (no dotted paths in
\* this model): [...new Set(Object.keys(update).map(...))]
KeysOf(obj) == SelectSeq(FieldOrder, LAMBDA f : Has(obj, f))

\* Object.keys(Object.assign({}, ...data)): keys in order of first use
RECURSIVE DataFieldsOf(_, _)
DataFieldsOf(data, acc) ==
    IF data = <<>> THEN acc
    ELSE DataFieldsOf(Tail(data),
           acc \o SelectSeq(KeysOf(Head(data)), LAMBDA f : f \notin Range(acc)))

\* difference(a, b)
Difference(a, b) == SelectSeq(a, LAMBDA f : f \notin Range(b))

\* { [key]: obj[key] for key of keys } as a query
KeyQuery(obj, keys) ==
    QExpr(MapSeq(LAMBDA key : QField(key, IF Has(obj, key) THEN FValue(obj[key]) ELSE FNull),
                 keys))

(***************************************************************************)
(* SQLite driver                                                           *)
(***************************************************************************)
\* Builder.get(sel): the SELECT, or null when the filter is '0'
BuilderGet(query) ==
    LET filter == ParseQuery(query)
    IN [null |-> filter = Sql0, filter |-> filter]

\* SQLiteDriver.get
SQLiteGet(db, query) ==
    LET sql == BuilderGet(query)
    IN IF sql.null THEN Res(db, TRUE, <<>>, {}, EmptyObj)
       ELSE Res(db, TRUE, <<"SELECT">>, EngSelect(db, sql.filter), EmptyObj)

\* SQLiteDriver.remove
SQLiteRemove(db, query) ==
    LET filter == ParseQuery(query)
    IN IF filter = Sql0 THEN Res(db, TRUE, <<>>, {}, EmptyObj)
       ELSE Res(EngDelete(db, filter), TRUE, <<"DELETE">>, {}, EmptyObj)

\* #update writing the model's initial values, not those of the fetched
\* row, into the fields the update does not mention
SQLiteUpdateFromInitial(db, indexFields, updateFields, update, data) ==
    LET row == ExecuteUpdate(ModelCreate(EmptyObj), update)
        assignment == [f \in Range(updateFields) |-> row[f]]
        filter == ParseQuery(KeyQuery(row, indexFields))
    IN EngUpdate(db, assignment, filter)

\* SQLiteDriver.#update: one UPDATE for the fetched row data
SQLiteUpdate(db, indexFields, updateFields, update, data) ==
    LET row == ExecuteUpdate(data, update)
        assignment == [f \in Range(updateFields) |-> row[f]]
        filter == ParseQuery(KeyQuery(row, indexFields))
    IN EngUpdate(db, assignment, filter)

RECURSIVE SQLiteSetLoop(_, _, _, _, _)
\* for (const row of data) this.#update(...)
SQLiteSetLoop(db, stmts, data, updateFields, update) ==
    IF data = <<>> THEN Res(db, TRUE, stmts, {}, EmptyObj)
    ELSE LET r == SQLiteUpdate(db, <<Primary>>, updateFields, update, Head(data))
         IN IF ~r.ok THEN Res(r.db, FALSE, stmts \o <<"UPDATE">>, {}, EmptyObj)
            ELSE SQLiteSetLoop(r.db, stmts \o <<"UPDATE">>, Tail(data),
                               updateFields, update)

\* SQLiteDriver.set
SQLiteSet(db, query, update) ==
    LET updateFields == KeysOf(update)
        data == SQLiteGet(db, query)
    IN SQLiteSetLoop(db, data.stmts, SortById(data.got), updateFields, update)

\* SQLiteDriver.#create: INSERT, then SELECT last_insert_rowid()
SQLiteCreateRow(db, data) == EngInsert(db, data)

\* create returning the caller's data, not model.create(data)
SQLiteCreateReturnsData(db, data0) ==
    LET data == ModelCreate(data0)
        r == SQLiteCreateRow(db, data)
    IN IF ~r.ok THEN Res(db, FALSE, <<"INSERT">>, {}, EmptyObj)
       ELSE Res(r.db, TRUE, <<"INSERT", "SELECT">>, {},
                Merge(data0, [f \in {Primary} |-> r.id]))

\* SQLiteDriver.create
SQLiteCreate(db, data0) ==
    LET data == ModelCreate(data0)
        r == SQLiteCreateRow(db, data)
    IN IF ~r.ok THEN Res(db, FALSE, <<"INSERT">>, {}, EmptyObj)
       ELSE Res(r.db, TRUE, <<"INSERT", "SELECT">>, {},
                Merge(data, [f \in {Primary} |-> r.id]))

\* Math.floor(960 / keys.length)
TreeBudget == 960

RECURSIVE SQLiteUpsertItems(_, _, _, _, _, _)
\* for (const item of chunk) ...
SQLiteUpsertItems(db, stmts, chunk, results, keys, updateFields) ==
    IF chunk = <<>> THEN Res(db, TRUE, stmts, {}, EmptyObj)
    ELSE LET item == Head(chunk)
             found == SelectSeq(results,
                        LAMBDA row : \A k \in Range(keys) :
                                       Has(item, k) /\ row[k] = item[k])
         IN IF found # <<>>
            THEN LET r == SQLiteUpdate(db, keys, updateFields, item, found[1])
                 IN IF ~r.ok THEN Res(r.db, FALSE, stmts \o <<"UPDATE">>, {}, EmptyObj)
                    ELSE SQLiteUpsertItems(r.db, stmts \o <<"UPDATE">>, Tail(chunk),
                                           results, keys, updateFields)
            ELSE LET r == SQLiteCreateRow(db, ExecuteUpdate(ModelCreate(EmptyObj), item))
                 IN IF ~r.ok THEN Res(r.db, FALSE, stmts \o <<"INSERT">>, {}, EmptyObj)
                    ELSE SQLiteUpsertItems(r.db, stmts \o <<"INSERT", "SELECT">>,
                                           Tail(chunk), results, keys, updateFields)

RECURSIVE SQLiteUpsertChunks(_, _, _, _, _, _)
\* for (let i = 0; i < data.length; i += step) ...
SQLiteUpsertChunks(db, stmts, data, keys, updateFields, step) ==
    IF data = <<>> THEN Res(db, TRUE, stmts, {}, EmptyObj)
    ELSE LET n == IF Len(data) < step THEN Len(data) ELSE step
             chunk == SubSeq(data, 1, n)
             results == SQLiteGet(db,
                          QExpr(<<QOr(MapSeq(LAMBDA item : KeyQuery(item, keys), chunk))>>))
             r == SQLiteUpsertItems(db, stmts \o results.stmts, chunk,
                                    SortById(results.got), keys, updateFields)
         IN IF ~r.ok THEN r
            ELSE SQLiteUpsertChunks(r.db, r.stmts, SubSeq(data, n + 1, Len(data)),
                                    keys, updateFields, step)

\* SQLiteDriver.upsert
SQLiteUpsert(db, data, keys) ==
    IF data = <<>> THEN Res(db, TRUE, <<>>, {}, EmptyObj)
    ELSE LET dataFields == DataFieldsOf(data, <<>>)
             diff == Difference(dataFields, keys)
             updateFields == IF diff = <<>> THEN <<dataFields[1]>> ELSE diff
             step == TreeBudget \div Len(keys)
         IN SQLiteUpsertChunks(db, <<>>, data, keys, updateFields, step)

(***************************************************************************)
(* MySQL driver                                                            *)
(***************************************************************************)
\* MySQLDriver.get
MySQLGet(db, query) ==
    LET filter == ParseQuery(query)
    IN IF filter = Sql0 THEN Res(db, TRUE, <<>>, {}, EmptyObj)
       ELSE Res(db, TRUE, <<"SELECT">>, EngSelect(db, filter), EmptyObj)

\* MySQLDriver.remove
MySQLRemove(db, query) ==
    LET filter == ParseQuery(query)
    IN IF filter = Sql0 THEN Res(db, TRUE, <<>>, {}, EmptyObj)
       ELSE Res(EngDelete(db, filter), TRUE, <<"DELETE">>, {}, EmptyObj)

\* set without the test for the filter '0'
MySQLSetNoShortCircuit(db, query, data) ==
    LET filter == ParseQuery(query)
        updateFields == KeysOf(data)
        update == [f \in Range(updateFields) |-> data[f]]
        r == EngUpdate(db, update, filter)
    IN Res(r.db, r.ok, <<"UPDATE">>, {}, EmptyObj)

\* MySQLDriver.set: one UPDATE ... SET field = value, ... WHERE filter
MySQLSet(db, query, data) ==
    LET filter == ParseQuery(query)
        updateFields == KeysOf(data)
        update == [f \in Range(updateFields) |-> data[f]]
    IN IF filter = Sql0 THEN Res(db, TRUE, <<>>, {}, EmptyObj)
       ELSE LET r == EngUpdate(db, update, filter)
            IN Res(r.db, r.ok, <<"UPDATE">>, {}, EmptyObj)

\* Database.create hands model.create(data) to the driver
DatabaseCreate(data) == ModelCreate(data)

\* create answering with the OkPacket's affectedRows in place of insertId
MySQLCreateAffectedRows(db, data) ==
    LET r == EngInsert(db, data)
    IN IF ~r.ok THEN Res(db, FALSE, <<"INSERT">>, {}, EmptyObj)
       ELSE Res(r.db, TRUE, <<"INSERT">>, {}, Merge(data, [f \in {Primary} |-> 1]))

\* MySQLDriver.create
MySQLCreate(db, data) ==
    LET r == EngInsert(db, data)
    IN IF ~r.ok THEN Res(db, FALSE, <<"INSERT">>, {}, EmptyObj)
       ELSE Res(r.db, TRUE, <<"INSERT">>, {}, Merge(data, [f \in {Primary} |-> r.id]))

\* toUpdateExpr taking the inserted value also for a field the item does
\* not mention
ToUpdateExprAlwaysValues(item, field) == "VALUES"

\* MySQLDriver.toUpdateExpr(table, item, field, true) for constant items:
\* VALUES(`field`) when the item sets the field, `field` itself otherwise
ToUpdateExpr(item, field) == IF Has(item, field) THEN "VALUES" ELSE "COLUMN"

\* the length of the text of a compiled filter (values print as one digit,
\* null prints as NULL)
RECURSIVE SqlLen(_)
SqlLen(f) ==
    LET keyLen == Len(f.key) + 2
        valLen(v) == IF v = Null THEN 4 ELSE 1
        sum == LET RECURSIVE Sum(_)
                   Sum(i) == IF i = 0 THEN 0 ELSE SqlLen(f.kids[i]) + Sum(i - 1)
               IN Sum(Len(f.kids))
        n == Len(f.kids)
    IN CASE f.s \in {"0", "1"} -> 1
         [] f.s = "cmp" -> keyLen + 1 + Len(f.op) + 1 + valLen(f.v)
         [] f.s = "in" ->
              keyLen + (IF f.op = "NOT" THEN 4 ELSE 0) + 5
              + Len(f.vals) + 2 * (Len(f.vals) - 1) + 1
         [] f.s = "isnull" -> keyLen + 4 + (IF f.op = "NOT" THEN 4 ELSE 0) + 5
         [] f.s = "not" -> 5 + sum
         [] f.s = "and" -> sum + 5 * (n - 1)
         [] f.s = "or" -> sum + 4 * (n - 1) + 2
         [] f.s = "orjoin" -> sum + 4 * (n - 1)

\* createMultiFilter answering with the filter of its first item alone
CreateMultiFilterFirst(items, keys) == ParseQuery(KeyQuery(items[1], keys))

\* createMultiFilter(items) of MySQLDriver.upsert
CreateMultiFilter(items, keys) ==
    IF Len(items) = 1 THEN ParseQuery(KeyQuery(items[1], keys))
    ELSE IF Len(keys) = 1
    THEN ParseQuery(QExpr(<<QField(keys[1],
                                   FArray(MapSeq(LAMBDA item : item[keys[1]], items)))>>))
    ELSE Sql("orjoin", "", "", 0, <<>>,
             MapSeq(LAMBDA item : ParseQuery(KeyQuery(item, keys)), items))

\* the distinct update expressions of a field, in order of first use: the
\* keys of branches
RECURSIVE BranchExprs(_, _, _)
BranchExprs(data, field, acc) ==
    IF data = <<>> THEN acc
    ELSE LET e == ToUpdateExpr(Head(data), field)
         IN BranchExprs(Tail(data), field,
                        IF e \in Range(acc) THEN acc ELSE Append(acc, e))

\* Array.prototype.sort by a.length - b.length (stable)
RECURSIVE SortByLength(_)
SortByLength(entries) ==
    IF entries = <<>> THEN <<>>
    ELSE LET i == CHOOSE k \in 1 .. Len(entries) :
                    /\ \A j \in 1 .. Len(entries) :
                         SqlLen(entries[k].filter) <= SqlLen(entries[j].filter)
                    /\ \A j \in 1 .. k - 1 :
                         SqlLen(entries[j].filter) > SqlLen(entries[k].filter)
         IN <<entries[i]>>
            \o SortByLength(SubSeq(entries, 1, i - 1) \o SubSeq(entries, i + 1, Len(entries)))

RECURSIVE Reverse(_)
Reverse(s) == IF s = <<>> THEN <<>> ELSE Append(Reverse(Tail(s)), Head(s))

\* the entries of one update field: [filter, expr], longest filter first
UpdateEntries(data, field, keys) ==
    LET exprs == BranchExprs(data, field, <<>>)
        entries == MapSeq(
                     LAMBDA expr :
                       [filter |-> CreateMultiFilter(
                                     SelectSeq(data, LAMBDA item :
                                                 ToUpdateExpr(item, field) = expr),
                                     keys),
                        expr |-> expr],
                     exprs)
    IN Reverse(SortByLength(entries))

\* the value of if(filter_n, expr_n, if(..., if(filter_2, expr_2, expr_1)))
\* on the conflicting row cur and the row that was to be inserted
RECURSIVE EvalUpdateExpr(_, _, _, _, _)
EvalUpdateExpr(entries, index, field, cur, ins) ==
    LET value(expr) == IF expr = "VALUES" THEN ins[field] ELSE cur[field]
    IN IF index = 1 THEN value(entries[1].expr)
       ELSE IF SqlEval(entries[index].filter, cur) = "T"
       THEN value(entries[index].expr)
       ELSE EvalUpdateExpr(entries, index - 1, field, cur, ins)

\* the assignments of ON DUPLICATE KEY UPDATE, applied left to right
RECURSIVE ApplyUpdates(_, _, _)
ApplyUpdates(update, cur, ins) ==
    IF update = <<>> THEN cur
    ELSE LET u == Head(update)
             v == EvalUpdateExpr(u.entries, Len(u.entries), u.field, cur, ins)
         IN ApplyUpdates(Tail(update), [cur EXCEPT ![u.field] = v], ins)

\* INSERT INTO bar (fields) VALUES row, row, ... ON DUPLICATE KEY UPDATE
\* update: row by row; the statement fails as a whole
RECURSIVE EngInsertOnDuplicate(_, _, _, _)
EngInsertOnDuplicate(db0, db, insertion, update) ==
    IF insertion = <<>> THEN [db |-> db, ok |-> TRUE]
    ELSE LET ins == [f \in Fields |->
                      IF Has(Head(insertion), f) THEN Head(insertion)[f] ELSE Null]
             dup == {r \in db.rows : r.id = ins.id}
         IN IF dup = {}
            THEN LET r == EngInsert(db, ins)
                 IN IF ~r.ok THEN [db |-> db0, ok |-> FALSE]
                    ELSE EngInsertOnDuplicate(db0, r.db, Tail(insertion), update)
            ELSE LET cur == CHOOSE r \in dup : TRUE
                     new == ApplyUpdates(update, cur, ins)
                     others == db.rows \ {cur}
                 IN IF new.id = Null \/ \E r \in others : r.id = new.id
                    THEN [db |-> db0, ok |-> FALSE]
                    ELSE EngInsertOnDuplicate(db0, Db(others \cup {new}, db.seq),
                                              Tail(insertion), update)

\* MySQLDriver.upsert
MySQLUpsert(db, data, keys) ==
    IF data = <<>> THEN Res(db, TRUE, <<>>, {}, EmptyObj)
    ELSE LET insertion == MapSeq(LAMBDA item : ExecuteUpdate(ModelCreate(EmptyObj), item),
                                 data)
             dataFields == DataFieldsOf(data, <<>>)
             updateFields == Difference(dataFields, keys)
             update == MapSeq(LAMBDA field :
                                [field |-> field,
                                 entries |-> UpdateEntries(data, field, keys)],
                              updateFields)
         IN IF update = <<>>
            \* ON DUPLICATE KEY UPDATE followed by nothing: a syntax error
            THEN Res(db, FALSE, <<"INSERT">>, {}, EmptyObj)
            ELSE LET r == EngInsertOnDuplicate(db, db, insertion, update)
                 IN Res(r.db, r.ok, <<"INSERT">>, {}, EmptyObj)

(***************************************************************************)
(* Inputs                                                                  *)
(***************************************************************************)
Obj1(f, v) == [x \in {f} |-> v]

Obj2(f, v, g, w) == Merge(Obj1(f, v), Obj1(g, w))

\* the queries of the model
Queries ==
    {QExpr(<<>>),
     QExpr(<<QField("id", FArray(<<>>))>>),
     QExpr(<<QField("id", FObject(<<FOpList("$in", <<>>)>>))>>),
     QExpr(<<QField("id", FObject(<<FOpList("$nin", <<>>)>>))>>),
     QExpr(<<QField("id", FArray(<<1, 2>>))>>),
     QExpr(<<QField("id", FObject(<<FOp("$gt", 1)>>))>>),
     QExpr(<<QField("id", FObject(<<FOp("$lte", 1)>>))>>),
     QExpr(<<QField("text", FObject(<<FOp("$exists", 1)>>))>>),
     QExpr(<<QField("text", FNull)>>),
     QExpr(<<QField("text", FObject(<<FOp("$ne", 1)>>))>>),
     QExpr(<<QOr(<<QExpr(<<QField("id", FArray(<<1>>))>>),
                   QExpr(<<QField("num", FScalar(1))>>)>>)>>),
     QExpr(<<QOr(<<>>)>>),
     QExpr(<<QOr(<<QExpr(<<QField("id", FArray(<<>>))>>)>>)>>),
     QExpr(<<QAnd(<<QExpr(<<QField("id", FScalar(1))>>),
                    QExpr(<<QField("text", FArray(<<>>))>>)>>)>>),
     QExpr(<<QNot(QExpr(<<QField("text", FScalar(1))>>))>>),
     QExpr(<<QField("id", FScalar(1)), QField("text", FScalar(1))>>)}
    \cup {QExpr(<<QField("id", FScalar(i))>>) : i \in Ids}

\* queries that use an operator Builder.queryOperators does not have
BadQueries ==
    {QExpr(<<QField("id", FObject(<<FOp("$foo", 1)>>))>>),
     QExpr(<<QField("id", FObject(<<FOp("$foo", 1), FOp("$gt", 1)>>))>>),
     QExpr(<<QField("id", FScalar(1)), QField("text", FObject(<<FOp("$foo", 1)>>))>>),
     QExpr(<<QNot(QExpr(<<QField("id", FObject(<<FOp("$foo", 1)>>))>>))>>),
     QExpr(<<QOr(<<QExpr(<<QField("id", FObject(<<FOp("$foo", 1)>>))>>),
                   QExpr(<<QField("id", FScalar(1))>>)>>)>>)}

\* the update objects of set
Updates ==
    {Obj1("text", v) : v \in Vals}
    \cup {Obj1("num", 1), Obj2("text", Null, "num", 1)}
    \cup {Obj1("id", i) : i \in Ids}
    \cup {Obj2("id", i, "text", 1) : i \in Ids}

\* the data objects of create
CreateData ==
    {EmptyObj, Obj1("text", 1), Obj1("text", Null), Obj2("text", 1, "num", 1)}
    \cup {Obj1("id", i) : i \in Ids}
    \cup {Obj2("id", i, "text", 1) : i \in Ids}

\* the items of upsert: every item names its key
Items ==
    {Obj1("id", i) : i \in Ids}
    \cup {Obj2("id", i, "text", Null) : i \in Ids}
    \cup {Obj2("id", i, "num", 1) : i \in Ids}
    \cup {Merge(Obj1("id", i), Obj2("text", 1, "num", 1)) : i \in Ids}

ItemLists == {<<a>> : a \in Items} \cup {<<a, b>> : a, b \in Items}

(***************************************************************************)
(* State: one driver instance on one database, and the last operation      *)
(***************************************************************************)
VARIABLES
    driver,     \* "sqlite" or "mysql"
    rows,       \* the rows of table bar
    seq,        \* the table's auto-increment sequence
    op,         \* the last operation, with its arguments ...
    opQuery,
    opObj,
    opItems,
    ok,         \* ... whether it resolved
    stmts,      \* ... the statements it submitted
    got,        \* ... the rows a get returned
    ret,        \* ... the row a create returned
    before,     \* ... the database it started from
    calls,      \* create calls in flight: position, data, outcome
    multipleStatements, \* MySQLDriver.config.multipleStatements
    issued,     \* the operations the caller issued, in issue order
    queryTasks, \* MySQLDriver._queryTasks
    ticks,      \* process.nextTick callbacks scheduled and not yet run
    poolLog,    \* the statements handed to pool.query, in that order
    executed,   \* how many statements of poolLog the server has run
    results,    \* what each executed get returned
    table,      \* the live table T of the schema synchronizer: columns, rows
    tempTable,  \* the table T_temp
    model,      \* the declared fields of T
    synced,     \* whether prepare has completed for the declared model
    prep,       \* the outcome of the last prepare
    tasks,      \* the tasks handed to MySQLDriver.queue: statement, outcome
    batches,    \* the multi-statement commands _flushTasks submitted
    path,       \* SQLiteDriver.config.path
    sqliteDb,   \* SQLiteDriver.db: the handle, whether open, what it holds
    writeTask,  \* SQLiteDriver.writeTask: the pending snapshot timer, 0 if none
    timers,     \* the setTimeout(..., 0) callbacks not yet run, in order
    file,       \* what fs.writeFile last wrote, per file name
    stopState,  \* where the stop() call stands
    snapLog,    \* counts kept of writes, bursts, snapshots
    disk,       \* the file on disk and the writeFile calls that have completed
    cast,        \* a value, its dump and the load of its dump
    tables,     \* the live tables of the database (name -> rows), before and after a drop
    registry,   \* the names of the tables of the model registry
    conn,       \* the pool (MySQL) or database handle (SQLite) of the driver
    life,       \* the outcomes of the start and stop calls so far
    loop,       \* an operation from its compilation on; the chunk loop of a SQLite upsert
    pure,       \* a function of the filter compiler with its arguments
    migration   \* Driver.migrate of a table: the hooks, what they did, the passes of prepare

dbVars == <<rows, seq>>

opVars == <<op, opQuery, opObj, opItems, ok, stmts, got, ret, before>>

callVars == <<calls>>

orderVars == <<multipleStatements, issued, queryTasks, ticks, poolLog, executed, results>>

schemaVars == <<table, tempTable, model, synced, prep>>

queueVars == <<tasks, batches>>

snapVars == <<path, sqliteDb, writeTask, timers, file, stopState, snapLog, disk>>

castVars == <<cast>>

miscVars == <<tables, registry, conn, life, loop, pure, migration>>

extVars == <<queueVars, snapVars, castVars, miscVars>>

vars == <<driver, dbVars, opVars, callVars, orderVars, schemaVars, extVars>>

\* no operation's outcome is held
IdleOp ==
    /\ op = "none"
    /\ opQuery = QExpr(<<>>)
    /\ opObj = EmptyObj
    /\ opItems = <<>>
    /\ ok = TRUE
    /\ stmts = <<>>
    /\ got = {}
    /\ ret = EmptyObj
    /\ before = Db({}, 0)

\* no create call is in flight
IdleCalls == calls = <<>>

\* nothing was issued, queued or handed to the pool
IdleOrder ==
    /\ multipleStatements = TRUE
    /\ issued = <<>>
    /\ queryTasks = <<>>
    /\ ticks = 0
    /\ poolLog = <<>>
    /\ executed = 0
    /\ results = <<>>

NoTable == [cols |-> <<>>, rows |-> {}]

NoPrep ==
    [done |-> FALSE, ok |-> TRUE, stmts |-> <<>>, branch |-> "none",
     insertFailed |-> FALSE, before |-> NoTable, wasSynced |-> FALSE,
     wasBranch |-> "none"]

\* no table is being synchronized
IdleSchema ==
    /\ table = NoTable
    /\ tempTable = NoTable
    /\ model = <<>>
    /\ synced = [on |-> FALSE, branch |-> "none"]
    /\ prep = NoPrep

\* nothing was handed to the batch queue
IdleQueue ==
    /\ tasks = <<>>
    /\ batches = <<>>

NoSnapLog ==
    [writes |-> 0, bursts |-> 0, snapshots |-> 0, onClosed |-> 0, inTick |-> FALSE]

\* no file on disk, no writeFile call completed
NoDisk == [exists |-> FALSE, data |-> 0, done |-> {}]

\* the SQLite handle is open and empty, nothing was written
IdleSnap ==
    /\ path = "data.db"
    /\ sqliteDb = [gen |-> 0, open |-> TRUE, data |-> 0]
    /\ writeTask = 0
    /\ timers = [next |-> 1, queue |-> <<>>]
    /\ file = <<>>
    /\ stopState = "running"
    /\ snapLog = NoSnapLog
    /\ disk = NoDisk

\* no value is being cast
IdleCast == cast = <<>>

\* no table but bar, a driver not started, no loop, no function applied
IdleMisc ==
    /\ tables = <<>>
    /\ registry = {}
    /\ conn = "undefined"
    /\ life = <<>>
    /\ loop = <<>>
    /\ pure = <<>>
    /\ migration = <<>>

IdleExt ==
    /\ IdleQueue
    /\ IdleSnap
    /\ IdleCast
    /\ IdleMisc

Init ==
    /\ driver \in {"sqlite", "mysql"}
    /\ rows = {}
    /\ seq = 0
    /\ IdleOp
    /\ IdleExt
    /\ IdleCalls
    /\ IdleOrder
    /\ IdleSchema

\* the ids of the model stay within 1 .. MaxId
InBounds(db) == db.seq <= MaxId /\ \A r \in db.rows : r.id \in Ids

\* an operation starts when the caller has taken the last one's outcome
Done(name, q, obj, items, result) ==
    /\ op = "none"
    /\ \E r \in {result} :
         /\ InBounds(r.db)
         /\ rows' = r.db.rows
         /\ seq' = r.db.seq
         /\ ok' = r.ok
         /\ stmts' = r.stmts
         /\ got' = r.got
         /\ ret' = r.ret
    /\ op' = name
    /\ opQuery' = q
    /\ opObj' = obj
    /\ opItems' = items
    /\ before' = Db(rows, seq)
    /\ UNCHANGED <<driver, extVars, schemaVars, callVars, orderVars>>

Get(q) ==
    Done("get", q, EmptyObj, <<>>,
         IF driver = "sqlite" THEN SQLiteGet(Db(rows, seq), q)
         ELSE MySQLGet(Db(rows, seq), q))

Remove(q) ==
    Done("remove", q, EmptyObj, <<>>,
         IF driver = "sqlite" THEN SQLiteRemove(Db(rows, seq), q)
         ELSE MySQLRemove(Db(rows, seq), q))

Set(q, update) ==
    Done("set", q, update, <<>>,
         IF driver = "sqlite" THEN SQLiteSet(Db(rows, seq), q, update)
         ELSE MySQLSet(Db(rows, seq), q, update))

Create(data) ==
    Done("create", QExpr(<<>>), data, <<>>,
         IF driver = "sqlite" THEN SQLiteCreate(Db(rows, seq), data)
         ELSE MySQLCreate(Db(rows, seq), DatabaseCreate(data)))

Upsert(items) ==
    Done("upsert", QExpr(<<>>), EmptyObj, items,
         IF driver = "sqlite" THEN SQLiteUpsert(Db(rows, seq), items, <<Primary>>)
         ELSE MySQLUpsert(Db(rows, seq), items, <<Primary>>))

\* the caller takes the outcome of the last operation
Return ==
    /\ op # "none"
    /\ op' = "none"
    /\ opQuery' = QExpr(<<>>)
    /\ opObj' = EmptyObj
    /\ opItems' = <<>>
    /\ ok' = TRUE
    /\ stmts' = <<>>
    /\ got' = {}
    /\ ret' = EmptyObj
    /\ before' = Db({}, 0)
    /\ UNCHANGED <<driver, extVars, schemaVars, dbVars, callVars, orderVars>>

\* get, remove, set and create on one driver instance
Next ==
    \/ Return
    \/ \E q \in Queries : Get(q)
    \/ \E q \in Queries : Remove(q)
    \/ \E q \in Queries, u \in Updates : Set(q, u)
    \/ \E d \in CreateData : Create(d)

Spec == Init /\ [][Next]_vars

\* remove and set with a query that uses an unknown operator
NextUnknown ==
    \/ Return
    \/ \E d \in CreateData : Create(d)
    \/ \E q \in BadQueries : Remove(q)
    \/ \E q \in BadQueries, u \in Updates : Set(q, u)

SpecUnknown == Init /\ [][NextUnknown]_vars

(***************************************************************************)
(* Updates that hold eval expressions.  An expression is a literal, a      *)
(* reference to a field of the row ($), or $add / $multiply of two         *)
(* expressions; an update is the list of its entries [field, expr] in key  *)
(* order.  The SQLite driver evaluates the update in JavaScript on each    *)
(* fetched row (executeUpdate) and writes the values; the MySQL driver     *)
(* compiles every expression with parseEval into one UPDATE ... SET, whose *)
(* assignments the server evaluates from left to right.                    *)
(***************************************************************************)
MaxNum == 4

Expr(e, v, f, args) == [e |-> e, v |-> v, f |-> f, args |-> args]

ELit(v) == Expr("lit", v, "", <<>>)

ERef(f) == Expr("$", 0, f, <<>>)

EAdd(a, b) == Expr("$add", 0, "", <<a, b>>)

EMultiply(a, b) == Expr("$multiply", 0, "", <<a, b>>)

Entry(field, expr) == [field |-> field, expr |-> expr]

RECURSIVE ExecuteEval(_, _)
\* executeEval(data, expr)
ExecuteEval(data, expr) ==
    CASE expr.e = "lit" -> expr.v
      [] expr.e = "$" -> data[expr.f]
      [] expr.e = "$add" ->
           ExecuteEval(data, expr.args[1]) + ExecuteEval(data, expr.args[2])
      [] expr.e = "$multiply" ->
           ExecuteEval(data, expr.args[1]) * ExecuteEval(data, expr.args[2])

RECURSIVE ExecuteUpdateEval(_, _)
\* executeUpdate(data, update, ref): for (const key in update)
\* data[key] = executeEval(data, update[key]), on the one object data
ExecuteUpdateEval(data, update) ==
    IF update = <<>> THEN data
    ELSE ExecuteUpdateEval(
           [data EXCEPT ![Head(update).field] = ExecuteEval(data, Head(update).expr)],
           Tail(update))

\* SQL expressions: a literal, a column, an arithmetic operation, or an
\* aggregate function ("sum" is ifnull(sum(...), 0), "count" is count(distinct ...))
SqlLit(v) == [x |-> "lit", v |-> v, col |-> "", kids |-> <<>>]

SqlCol(col) == [x |-> "col", v |-> 0, col |-> col, kids |-> <<>>]

SqlArith(operator, kids) == [x |-> operator, v |-> 0, col |-> "", kids |-> kids]

RECURSIVE ParseEval(_)
\* Builder.parseEval / parseEvalExpr with evalOperators.$, $add, $multiply,
\* $subtract, $sum and $count (parseAggr of a field name)
ParseEval(expr) ==
    CASE expr.e = "lit" -> SqlLit(expr.v)
      [] expr.e = "$" -> SqlCol(expr.f)
      [] expr.e = "$add" -> SqlArith("+", MapSeq(LAMBDA arg : ParseEval(arg), expr.args))
      [] expr.e = "$multiply" ->
           SqlArith("*", MapSeq(LAMBDA arg : ParseEval(arg), expr.args))
      [] expr.e = "$subtract" ->
           SqlArith("-", MapSeq(LAMBDA arg : ParseEval(arg), expr.args))
      [] expr.e = "$sum" -> SqlArith("sum", <<SqlCol(expr.f)>>)
      [] expr.e = "$count" -> SqlArith("count", <<SqlCol(expr.f)>>)

RECURSIVE SqlValue(_, _)
\* the value of an SQL expression on a row; NULL if an operand is NULL
SqlValue(x, row) ==
    CASE x.x = "lit" -> x.v
      [] x.x = "col" -> row[x.col]
      [] OTHER ->
           LET a == SqlValue(x.kids[1], row)
               b == SqlValue(x.kids[2], row)
           IN IF a = Null \/ b = Null THEN Null
              ELSE IF x.x = "+" THEN a + b ELSE a * b

RECURSIVE AssignLeftToRight(_, _, _)
\* SET a = x, b = y as MySQL runs a single-table UPDATE: the assignments
\* from left to right, an expression seeing the values already assigned
AssignLeftToRight(update, old, row) ==
    IF update = <<>> THEN row
    ELSE AssignLeftToRight(Tail(update), old,
           [row EXCEPT ![Head(update).field] = SqlValue(Head(update).expr, row)])

\* UPDATE bar SET update WHERE filter on the MySQL server
EngUpdateSet(db, update, filter) ==
    LET hit == Where(db.rows, filter)
        upd(r) == IF r \in hit THEN AssignLeftToRight(update, r, r) ELSE r
        bad == \/ \E r \in db.rows : upd(r).id = Null
               \/ \E r1, r2 \in db.rows : r1 # r2 /\ upd(r1).id = upd(r2).id
    IN IF bad THEN [db |-> db, ok |-> FALSE]
       ELSE [db |-> Db({upd(r) : r \in db.rows}, db.seq), ok |-> TRUE]

\* the fields an update names, in order of first use
UpdateFieldsOf(update) ==
    SelectSeq(FieldOrder, LAMBDA f : \E i \in DOMAIN update : update[i].field = f)

\* MySQLDriver.set with toUpdateExpr(table, data, field, false)
MySQLSetEval(db, query, update) ==
    LET filter == ParseQuery(query)
    IN IF filter = Sql0 THEN Res(db, TRUE, <<>>, {}, EmptyObj)
       ELSE LET r == EngUpdateSet(db,
                       MapSeq(LAMBDA u : Entry(u.field, ParseEval(u.expr)), update),
                       filter)
            IN Res(r.db, r.ok, <<"UPDATE">>, {}, EmptyObj)

RECURSIVE SQLiteSetEvalLoop(_, _, _, _, _)
\* for (const row of data) this.#update(sel, primaryFields, updateFields, update, row)
SQLiteSetEvalLoop(db, ran, data, updateFields, update) ==
    IF data = <<>> THEN Res(db, TRUE, ran, {}, EmptyObj)
    ELSE LET values == ExecuteUpdateEval(Head(data), update)
             r == SQLiteUpdate(db, <<Primary>>, updateFields,
                               [f \in Range(updateFields) |-> values[f]], Head(data))
         IN IF ~r.ok THEN Res(r.db, FALSE, ran \o <<"UPDATE">>, {}, EmptyObj)
            ELSE SQLiteSetEvalLoop(r.db, ran \o <<"UPDATE">>, Tail(data),
                                   updateFields, update)

\* SQLiteDriver.set with an update of expressions
SQLiteSetEval(db, query, update) ==
    LET data == SQLiteGet(db, query)
    IN SQLiteSetEvalLoop(db, data.stmts, SortById(data.got),
                         UpdateFieldsOf(update), update)

\* the updates of the model: row => ({ num: $.multiply(2, row.id) }) and others
EvalUpdates ==
    {<<Entry("num", EMultiply(ELit(2), ERef("id")))>>,
     <<Entry("num", EAdd(ELit(3), ERef("num")))>>,
     <<Entry("num", ELit(1))>>,
     <<Entry("text", ERef("num")), Entry("num", EAdd(ERef("num"), ELit(1)))>>,
     <<Entry("num", EAdd(ERef("num"), ELit(1))), Entry("text", ERef("num"))>>}

\* the queries of set in this part: lists of identifiers, and all rows
EvalQueries ==
    {QExpr(<<>>),
     QExpr(<<QField("id", FArray(<<1, 2>>))>>),
     QExpr(<<QField("id", FArray(<<2, MaxId + 1>>))>>)}
    \cup {QExpr(<<QField("id", FScalar(i))>>) : i \in Ids}

\* no value has left the range of the model
NumInBounds(db) == \A r \in db.rows : r.num <= MaxNum

SetEval(q, update) ==
    /\ NumInBounds((IF driver = "sqlite" THEN SQLiteSetEval(Db(rows, seq), q, update)
                    ELSE MySQLSetEval(Db(rows, seq), q, update)).db)
    /\ Done("set", q, update, <<>>,
            IF driver = "sqlite" THEN SQLiteSetEval(Db(rows, seq), q, update)
            ELSE MySQLSetEval(Db(rows, seq), q, update))

NextEval ==
    \/ Return
    \/ \E d \in CreateData : Create(d)
    \/ \E q \in EvalQueries, u \in EvalUpdates : SetEval(q, u)

SpecEval == Init /\ [][NextEval]_vars

(***************************************************************************)
(* eval.  An expression is compiled by parseEval and selected as the one   *)
(* column `value`; a select whose output holds an aggregate function gives *)
(* one row whatever the table holds, any other select one row for each row *)
(* of the table.                                                           *)
(***************************************************************************)
ESum(f) == Expr("$sum", 0, f, <<>>)

ECount(f) == Expr("$count", 0, f, <<>>)

ESubtract(a, b) == Expr("$subtract", 0, "", <<a, b>>)

\* the result of eval: a value, or undefined
Value(v) == [value |-> v, undefined |-> FALSE]

NoValue == [value |-> Null, undefined |-> TRUE]

RECURSIVE HasAggregate(_)
HasAggregate(x) ==
    \/ x.x \in {"sum", "count"}
    \/ \E i \in DOMAIN x.kids : HasAggregate(x.kids[i])

RECURSIVE SqlSum(_)
\* sum() of a list of values: NULL values are skipped, NULL if none is left
SqlSum(values) ==
    IF values = <<>> THEN Null
    ELSE LET rest == SqlSum(Tail(values))
         IN IF Head(values) = Null THEN rest
            ELSE IF rest = Null THEN Head(values)
            ELSE Head(values) + rest

RECURSIVE SqlAggregate(_, _)
\* the value of an output with aggregate functions on the selected rows
SqlAggregate(x, selected) ==
    CASE x.x = "lit" -> x.v
      [] x.x = "sum" ->
           LET s == SqlSum(MapSeq(LAMBDA r : SqlValue(x.kids[1], r), selected))
           IN IF s = Null THEN 0 ELSE s
      [] x.x = "count" ->
           Cardinality({SqlValue(x.kids[1], selected[i]) : i \in DOMAIN selected} \ {Null})
      [] OTHER ->
           LET a == SqlAggregate(x.kids[1], selected)
               b == SqlAggregate(x.kids[2], selected)
           IN IF a = Null \/ b = Null THEN Null
              ELSE IF x.x = "+" THEN a + b
              ELSE IF x.x = "-" THEN a - b
              ELSE a * b

\* SELECT output AS value FROM bar WHERE filter: the rows of the result
EngSelectValue(db, output, filter) ==
    LET selected == SortById(Where(db.rows, filter))
    IN IF HasAggregate(output) THEN <<SqlAggregate(output, selected)>>
       ELSE MapSeq(LAMBDA r : SqlValue(output, r), selected)

\* MySQLDriver.eval: const [data] = await this.queue(...); return data.value
MySQLEval(db, query, expr) ==
    LET data == EngSelectValue(db, ParseEval(expr), ParseQuery(query))
    IN IF data = <<>> THEN Res(db, FALSE, <<"SELECT">>, {}, NoValue)
       ELSE Res(db, TRUE, <<"SELECT">>, {}, Value(data[1]))

\* SQLiteDriver.eval: const { value } = this.#get(...), the first row of the
\* result as an object, without the property when there is no row
SQLiteEval(db, query, expr) ==
    LET data == EngSelectValue(db, ParseEval(expr), ParseQuery(query))
    IN IF data = <<>> THEN Res(db, TRUE, <<"SELECT">>, {}, NoValue)
       ELSE Res(db, TRUE, <<"SELECT">>, {}, Value(data[1]))

\* the expressions of eval: a literal, $sum, $count, and their difference
EvalExprs ==
    {ELit(MaxNum)}
    \cup {ESum(f) : f \in {"id", "text", "num"}}
    \cup {ECount(f) : f \in {"text", "num"}}
    \cup {ESubtract(ESum("id"), ECount("text")), ESubtract(ESum("text"), ECount("num"))}

\* eval(T, expr)
Eval(expr) ==
    Done("eval", QExpr(<<>>), expr, <<>>,
         IF driver = "sqlite" THEN SQLiteEval(Db(rows, seq), QExpr(<<>>), expr)
         ELSE MySQLEval(Db(rows, seq), QExpr(<<>>), expr))

NextAggr ==
    \/ Return
    \/ \E d \in CreateData : Create(d)
    \/ \E expr \in EvalExprs : Eval(expr)

SpecAggr == Init /\ [][NextAggr]_vars

\* upsert, with create and remove, on one driver instance
NextUpsert ==
    \/ Return
    \/ \E q \in Queries : Remove(q)
    \/ \E d \in CreateData : Create(d)
    \/ \E items \in ItemLists : Upsert(items)

SpecUpsert == Init /\ [][NextUpsert]_vars

(***************************************************************************)
(* Concurrent create calls on the auto-increment table.  SQLiteDriver      *)
(* .create has no await: INSERT and SELECT last_insert_rowid() run in the  *)
(* call itself.  MySQLDriver.create hands its INSERT to pool.query and     *)
(* awaits; the pool's connections run the INSERTs of the pending calls in  *)
(* any order, and each INSERT's OkPacket carries its own insertId.         *)
(***************************************************************************)
MaxCalls == 3

CallIds == 1 .. MaxCalls

\* the data objects of the concurrent calls (the sequence assigns the id)
CallData == {EmptyObj, Obj1("text", 1)}

Call(pc, data, row, result) == [pc |-> pc, data |-> data, row |-> row, ret |-> result]

InitCreate ==
    /\ driver \in {"sqlite", "mysql"}
    /\ rows = {}
    /\ seq \in {0, 1}
    /\ IdleOp
    /\ IdleExt
    /\ calls = [c \in CallIds |-> Call("idle", EmptyObj, EmptyObj, EmptyObj)]
    /\ IdleOrder
    /\ IdleSchema

\* the row an INSERT added
Inserted(db0, db1) == CHOOSE r \in db1.rows \ db0.rows : TRUE

\* the caller starts call c
CreateStart(c, data) ==
    /\ calls[c].pc = "idle"
    /\ IF driver = "sqlite"
       THEN LET r == SQLiteCreate(Db(rows, seq), data)
            IN /\ r.ok
               /\ rows' = r.db.rows
               /\ seq' = r.db.seq
               /\ calls' = [calls EXCEPT ![c] =
                     Call("executed", data, Inserted(Db(rows, seq), r.db), r.ret)]
       ELSE /\ calls' = [calls EXCEPT ![c] =
                  Call("sent", DatabaseCreate(data), EmptyObj, EmptyObj)]
            /\ UNCHANGED dbVars
    /\ UNCHANGED <<driver, extVars, schemaVars, opVars, orderVars>>

\* the server runs the INSERT of call c and answers with its OkPacket
CreateExec(c) ==
    /\ calls[c].pc = "sent"
    /\ LET r == MySQLCreate(Db(rows, seq), calls[c].data)
       IN /\ r.ok
          /\ rows' = r.db.rows
          /\ seq' = r.db.seq
          /\ calls' = [calls EXCEPT ![c] =
                Call("executed", calls[c].data, Inserted(Db(rows, seq), r.db), r.ret)]
    /\ UNCHANGED <<driver, extVars, schemaVars, opVars, orderVars>>

\* the promise of call c resolves
CreateReturn(c) ==
    /\ calls[c].pc = "executed"
    /\ calls' = [calls EXCEPT ![c].pc = "returned"]
    /\ UNCHANGED <<driver, extVars, schemaVars, dbVars, opVars, orderVars>>

NextCreate ==
    \/ \E c \in CallIds, d \in CallData : CreateStart(c, d)
    \/ \E c \in CallIds : CreateExec(c)
    \/ \E c \in CallIds : CreateReturn(c)

SpecCreate == InitCreate /\ [][NextCreate]_vars

(***************************************************************************)
(* The order in which the operations of one MySQLDriver reach the server.  *)
(* A driver method runs up to its first await when it is called: get ends  *)
(* in queue(), which appends to _queryTasks and schedules _flushTasks with *)
(* process.nextTick (or calls query() when multipleStatements is off);     *)
(* set, remove and create end in query(), which calls pool.query at once.  *)
(* The pool is taken to run what it is handed one statement after another, *)
(* in the order of the calls to pool.query.                                *)
(***************************************************************************)
MaxOps == 3

OpKinds == {"get", "set", "remove", "create"}

InitOrder ==
    /\ driver = "mysql"
    /\ rows = {}
    /\ seq = 0
    /\ IdleOp
    /\ IdleExt
    /\ IdleCalls
    /\ multipleStatements \in BOOLEAN
    /\ issued = <<>>
    /\ queryTasks = <<>>
    /\ ticks = 0
    /\ poolLog = <<>>
    /\ executed = 0
    /\ results = <<>>
    /\ IdleSchema

\* MySQLDriver.query: pool.query(sql, ...) is called before query returns
Query(task) == poolLog' = Append(poolLog, task)

\* MySQLDriver.queue
Queue(task) ==
    IF ~multipleStatements
    THEN /\ Query(task)
         /\ UNCHANGED <<queryTasks, ticks>>
    ELSE /\ queryTasks' = Append(queryTasks, task)
         /\ ticks' = ticks + 1
         /\ UNCHANGED poolLog

\* the caller calls get(bar, {}), set(bar, {}, {text: 1}), remove(bar, {})
\* or create(bar, {}) without waiting for the calls made before
Issue(kind) ==
    /\ Len(issued) < MaxOps
    /\ issued' = Append(issued, kind)
    /\ IF kind = "get" THEN Queue(Len(issued) + 1)
       ELSE Query(Len(issued) + 1) /\ UNCHANGED <<queryTasks, ticks>>
    /\ UNCHANGED <<driver, extVars, schemaVars, dbVars, opVars, callVars, multipleStatements, executed, results>>

\* MySQLDriver._flushTasks, run by a process.nextTick callback
FlushTasks ==
    /\ ticks > 0
    /\ ticks' = ticks - 1
    /\ IF queryTasks = <<>> THEN UNCHANGED <<queryTasks, poolLog>>
       ELSE /\ queryTasks' = <<>>
            /\ poolLog' = poolLog \o queryTasks
    /\ UNCHANGED <<driver, extVars, schemaVars, dbVars, opVars, callVars, multipleStatements, issued, executed, results>>

\* what the statement of an operation does to the database when it runs
Execute(kind, db) ==
    CASE kind = "get" -> MySQLGet(db, QExpr(<<>>))
      [] kind = "set" -> MySQLSet(db, QExpr(<<>>), Obj1("text", 1))
      [] kind = "remove" -> MySQLRemove(db, QExpr(<<>>))
      [] kind = "create" -> MySQLCreate(db, DatabaseCreate(EmptyObj))

\* the server runs the next statement it was handed
PoolExec ==
    /\ executed < Len(poolLog)
    /\ LET task == poolLog[executed + 1]
           r == Execute(issued[task], Db(rows, seq))
       IN /\ rows' = r.db.rows
          /\ seq' = r.db.seq
          /\ results' = IF issued[task] = "get"
                        THEN [i \in DOMAIN results \cup {task} |->
                                 IF i = task THEN r.got ELSE results[i]]
                        ELSE results
    /\ executed' = executed + 1
    /\ UNCHANGED <<driver, extVars, schemaVars, opVars, callVars, multipleStatements, issued, queryTasks, ticks, poolLog>>

NextOrder ==
    \/ \E kind \in OpKinds : Issue(kind)
    \/ FlushTasks
    \/ PoolExec

SpecOrder == InitOrder /\ [][NextOrder]_vars

(***************************************************************************)
(* The batch queue of the MySQL driver.  queue() appends a task (sql,      *)
(* resolve, reject) to _queryTasks and schedules _flushTasks with          *)
(* process.nextTick; _flushTasks takes the whole list, submits the         *)
(* statements joined by '; ' as one command and, when the command          *)
(* answers, resolves task number i with results[i], or rejects every task  *)
(* with the command's error.  The pool may answer the commands in flight   *)
(* in any order.  With multipleStatements off queue() is query().          *)
(***************************************************************************)
MaxTasks == 3

Statements == {"SELECT a", "SELECT b"}

\* JavaScript values: arrays, result rows, errors and undefined
Array(items) == [type |-> "array", items |-> items]

Undefined == [type |-> "undefined"]

QueryError(b) == [type |-> "error", batch |-> b]

Task(sql, state, value, settled) ==
    [sql |-> sql, state |-> state, value |-> value, settled |-> settled]

Batch(ids, direct, state) == [tasks |-> ids, direct |-> direct, state |-> state]

InitQueue ==
    /\ driver = "mysql"
    /\ rows = {}
    /\ seq = 0
    /\ IdleOp
    /\ IdleCalls
    /\ IdleSchema
    /\ IdleSnap
    /\ IdleCast
    /\ IdleMisc
    /\ multipleStatements \in BOOLEAN
    /\ issued = <<>>
    /\ queryTasks = <<>>
    /\ ticks = 0
    /\ poolLog = <<>>
    /\ executed = 0
    /\ results = <<>>
    /\ tasks = <<>>
    /\ batches = <<>>

queueFrame ==
    <<driver, dbVars, opVars, callVars, schemaVars, snapVars, castVars, miscVars,
      multipleStatements, issued, poolLog, executed, results>>

\* MySQLDriver.queue(sql)
Enqueue(sql) ==
    /\ Len(tasks) < MaxTasks
    /\ tasks' = Append(tasks, Task(sql, "pending", Undefined, 0))
    /\ IF ~multipleStatements
       THEN /\ batches' = Append(batches, Batch(<<Len(tasks) + 1>>, TRUE, "inflight"))
            /\ UNCHANGED <<queryTasks, ticks>>
       ELSE /\ queryTasks' = Append(queryTasks, Len(tasks) + 1)
            /\ ticks' = ticks + 1
            /\ UNCHANGED batches
    /\ UNCHANGED queueFrame

\* MySQLDriver._flushTasks up to its await: an empty list submits nothing
FlushSubmit ==
    /\ ticks > 0
    /\ ticks' = ticks - 1
    /\ IF queryTasks = <<>> THEN UNCHANGED <<queryTasks, batches>>
       ELSE /\ queryTasks' = <<>>
            /\ batches' = Append(batches, Batch(queryTasks, FALSE, "inflight"))
    /\ UNCHANGED <<queueFrame, tasks>>

\* array[i] in JavaScript, for i counted from 1
Index(array, i) ==
    IF array.type = "array" /\ i \in DOMAIN array.items THEN array.items[i]
    ELSE Undefined

\* the rows the server answers statement number i of command b with
StmtResult(sql, b, i) ==
    Array(<<[type |-> "row", sql |-> sql, batch |-> b, pos |-> i]>>)

\* what pool.query hands to its callback: the rows of the statement when
\* the command holds one statement, the list of each statement's rows
\* when it holds several
PoolResults(b, sqls) ==
    IF Len(sqls) = 1 THEN StmtResult(sqls[1], b, 1)
    ELSE Array(MapSeq(LAMBDA i : StmtResult(sqls[i], b, i), [i \in DOMAIN sqls |-> i]))

\* _flushTasks handing results[index] to each task without wrapping the
\* answer of a single statement
DemuxNoWrap(ids, answer) == MapSeq(LAMBDA i : Index(answer, i), [i \in DOMAIN ids |-> i])

\* _flushTasks: if (tasks.length === 1) results = [results];
\* tasks.forEach((task, index) => task.resolve(results[index]))
Demux(ids, answer) ==
    LET list == IF Len(ids) = 1 THEN Array(<<answer>>) ELSE answer
    IN MapSeq(LAMBDA i : Index(list, i), [i \in DOMAIN ids |-> i])

\* a promise settles once: resolve and reject on a settled promise do nothing
Settle(t, state, value) ==
    IF t.state # "pending" THEN t
    ELSE Task(t.sql, state, value, t.settled + 1)

\* the tasks after resolve(values[i]) on task ids[i], for each i
ResolveAll(ts, ids, values) ==
    [t \in DOMAIN ts |->
        IF \E i \in DOMAIN ids : ids[i] = t
        THEN Settle(ts[t], "resolved",
                    values[CHOOSE i \in DOMAIN ids : ids[i] = t])
        ELSE ts[t]]

\* the catch block rejecting the first task only
RejectFirst(ts, ids, error) ==
    [t \in DOMAIN ts |->
        IF ids[1] = t THEN Settle(ts[t], "rejected", error) ELSE ts[t]]

\* catch (error) { tasks.forEach(task => task.reject(error)) }
RejectAll(ts, ids, error) ==
    [t \in DOMAIN ts |->
        IF \E i \in DOMAIN ids : ids[i] = t
        THEN Settle(ts[t], "rejected", error)
        ELSE ts[t]]

\* the command of batch b answers with its results
BatchDone(b) ==
    /\ batches[b].state = "inflight"
    /\ LET ids == batches[b].tasks
           answer == PoolResults(b, MapSeq(LAMBDA t : tasks[t].sql, ids))
       IN tasks' = ResolveAll(tasks, ids,
                       IF batches[b].direct THEN <<answer>> ELSE Demux(ids, answer))
    /\ batches' = [batches EXCEPT ![b].state = "done"]
    /\ UNCHANGED <<queueFrame, queryTasks, ticks>>

\* the command of batch b fails
BatchFail(b) ==
    /\ batches[b].state = "inflight"
    /\ tasks' = RejectAll(tasks, batches[b].tasks, QueryError(b))
    /\ batches' = [batches EXCEPT ![b].state = "failed"]
    /\ UNCHANGED <<queueFrame, queryTasks, ticks>>

NextQueue ==
    \/ \E sql \in Statements : Enqueue(sql)
    \/ FlushSubmit
    \/ \E b \in DOMAIN batches : BatchDone(b)
    \/ \E b \in DOMAIN batches : BatchFail(b)

SpecQueue == InitQueue /\ [][NextQueue]_vars

(***************************************************************************)
(* The snapshot of the SQLite driver.  The database lives in memory;       *)
(* #run executes a statement and, when config.path is set, cancels the     *)
(* pending writeTask and schedules #export with setTimeout(0).  #export    *)
(* serializes the database, writes it to config.path and opens a new       *)
(* handle on the exported bytes.  stop() waits for one setTimeout(0) and   *)
(* closes the handle.  timers is the timer queue of the event loop:        *)
(* timers of equal delay fire in the order they were set, and the          *)
(* continuation of an await runs before the next timer does.               *)
(***************************************************************************)
MaxWrites == 3

Paths == {"data.db", ":memory:", ""}

\* a string is truthy unless empty
TruthyPath(p) == p # ""

Timer(id, kind) == [id |-> id, kind |-> kind]

\* setTimeout(callback, 0): the new timer goes behind those already set
SetTimeout(tm, kind) ==
    [next |-> tm.next + 1, queue |-> Append(tm.queue, Timer(tm.next, kind))]

\* clearTimeout(id): nothing happens for undefined or a timer that has fired
ClearTimeout(tm, id) ==
    [tm EXCEPT !.queue = SelectSeq(tm.queue, LAMBDA t : t.id # id)]

\* #run scheduling the export without cancelling the pending one
ScheduleExportNoClear(tm, id) == SetTimeout(tm, "export")

\* clearTimeout(this.writeTask); this.writeTask = setTimeout(() => this.#export(), 0)
ScheduleExport(tm, id) == SetTimeout(ClearTimeout(tm, id), "export")

Pending(kind) == {i \in DOMAIN timers.queue : timers.queue[i].kind = kind}

InitSnapshot ==
    /\ driver = "sqlite"
    /\ rows = {}
    /\ seq = 0
    /\ IdleOp
    /\ IdleCalls
    /\ IdleOrder
    /\ IdleSchema
    /\ IdleQueue
    /\ IdleCast
    /\ IdleMisc
    /\ path \in Paths
    /\ sqliteDb = [gen |-> 0, open |-> TRUE, data |-> 0]
    /\ writeTask = 0
    /\ timers = [next |-> 1, queue |-> <<>>]
    /\ file = <<>>
    /\ stopState = "running"
    /\ snapLog = NoSnapLog
    /\ disk = NoDisk

\* what no step of the snapshot machinery changes
diskFrame ==
    <<driver, dbVars, opVars, callVars, orderVars, schemaVars, queueVars, castVars,
      miscVars, path>>

snapFrame == <<diskFrame, disk>>

\* SQLiteDriver.#run on an open handle: the statement is applied, then the
\* export is scheduled
Write ==
    /\ snapLog.writes < MaxWrites
    /\ sqliteDb.open
    /\ sqliteDb' = [sqliteDb EXCEPT !.data = @ + 1]
    /\ IF TruthyPath(path)
       THEN /\ timers' = ScheduleExport(timers, writeTask)
            /\ writeTask' = timers.next
       ELSE UNCHANGED <<timers, writeTask>>
    /\ snapLog' = [snapLog EXCEPT
                     !.writes = @ + 1,
                     !.bursts = IF snapLog.inTick THEN @ ELSE @ + 1,
                     !.inTick = TRUE]
    /\ UNCHANGED <<snapFrame, file, stopState>>

\* SQLiteDriver.stop up to its await
Stop ==
    /\ stopState = "running"
    /\ stopState' = "stopping"
    /\ timers' = SetTimeout(timers, "stop")
    /\ UNCHANGED <<snapFrame, sqliteDb, writeTask, file, snapLog>>

\* the timer of stop fires: the await ends, the handle is closed and stop
\* resolves
FireStop ==
    /\ timers.queue # <<>>
    /\ Head(timers.queue).kind = "stop"
    /\ timers' = [timers EXCEPT !.queue = Tail(@)]
    /\ sqliteDb' = [sqliteDb EXCEPT !.open = FALSE]
    /\ stopState' = "stopped"
    /\ snapLog' = [snapLog EXCEPT !.inTick = FALSE]
    /\ UNCHANGED <<snapFrame, writeTask, file>>

\* the writeTask timer fires: SQLiteDriver.#export; db.export() on a
\* closed handle throws
FireExport ==
    /\ timers.queue # <<>>
    /\ Head(timers.queue).kind = "export"
    /\ timers' = [timers EXCEPT !.queue = Tail(@)]
    /\ IF sqliteDb.open
       THEN /\ file' = Append(file, [path |-> path, data |-> sqliteDb.data])
            /\ sqliteDb' = [gen |-> sqliteDb.gen + 1, open |-> TRUE, data |-> sqliteDb.data]
            /\ snapLog' = [snapLog EXCEPT !.snapshots = @ + 1, !.inTick = FALSE]
       ELSE /\ snapLog' = [snapLog EXCEPT !.onClosed = @ + 1, !.inTick = FALSE]
            /\ UNCHANGED <<file, sqliteDb>>
    /\ UNCHANGED <<snapFrame, writeTask, stopState>>

NextSnapshot ==
    \/ Write
    \/ Stop
    \/ FireStop
    \/ FireExport

SpecSnapshot == InitSnapshot /\ [][NextSnapshot]_vars

(***************************************************************************)
(* The file.  #export hands the serialized database to fs.writeFile of     *)
(* fs.promises and does not await it: the call is outstanding until the    *)
(* file system has completed it, and calls that are outstanding together   *)
(* complete in either order, the file holding what the last one to         *)
(* complete wrote.  file lists the calls in the order they were made.      *)
(***************************************************************************)
\* the writeFile calls not yet completed
Outstanding == DOMAIN file \ disk.done

\* a writeFile call completes
WriteFileDone(i) ==
    /\ i \in Outstanding
    /\ disk' = [exists |-> TRUE, data |-> file[i].data, done |-> disk.done \cup {i}]
    /\ UNCHANGED <<diskFrame, sqliteDb, writeTask, timers, file, stopState, snapLog>>

NextFile ==
    \/ NextSnapshot
    \/ \E i \in 1 .. MaxWrites : WriteFileDone(i)

SpecFile == InitSnapshot /\ [][NextFile]_vars

(***************************************************************************)
(* The casters of the SQLite driver: for the field types boolean, json,    *)
(* list and date / time / timestamp, dump turns the value of a field into  *)
(* what is stored and load turns what is stored back.  Strings are         *)
(* sequences of characters; the text JSON.stringify writes is a sequence   *)
(* of symbols: true, false, null, a digit, a punctuation mark, or a        *)
(* character of a string between quotes.                                   *)
(***************************************************************************)
MaxList == 2

MaxStr == 1

JBool(b) == [type |-> "boolean", b |-> b]

JNum(n) == [type |-> "number", n |-> n]

JStr(chars) == [type |-> "string", chars |-> chars]

JNull == [type |-> "null"]

JDate(ms) == [type |-> "date", ms |-> ms]

JObject(members) == [type |-> "object", members |-> members]

Member(key, val) == [key |-> key, val |-> val]

\* the sequences over S of length at most n
SeqsUpTo(S, n) == UNION {[1 .. k -> S] : k \in 0 .. n}

Chars == {"a", ","}

Strings == {JStr(c) : c \in SeqsUpTo(Chars, MaxStr)}

\* the values of a list field: the lists of strings
Lists == {Array(l) : l \in SeqsUpTo(Strings, MaxList)}

JsonScalars == {JBool(TRUE), JBool(FALSE), JNum(0), JNum(1), JNull} \cup Strings

\* the values of a json field
JsonValues ==
    (JsonScalars \ {JNull})
    \cup {Array(l) : l \in SeqsUpTo(JsonScalars \cup {Array(<<>>)}, MaxList)}
    \cup {JObject(<<>>)}
    \cup {JObject(<<Member(<<"a">>, v)>>) : v \in JsonScalars \cup {Array(<<JNum(1)>>)}}

RECURSIVE JoinWith(_, _)
\* Array.prototype.join(sep) on an array of strings
JoinWith(items, sep) ==
    IF items = <<>> THEN <<>>
    ELSE IF Len(items) = 1 THEN items[1].chars
    ELSE items[1].chars \o <<sep>> \o JoinWith(Tail(items), sep)

RECURSIVE SplitAt(_, _, _)
\* String.prototype.split(sep): cur is the piece being read
SplitAt(chars, sep, cur) ==
    IF chars = <<>> THEN <<JStr(cur)>>
    ELSE IF Head(chars) = sep THEN <<JStr(cur)>> \o SplitAt(Tail(chars), sep, <<>>)
    ELSE SplitAt(Tail(chars), sep, Append(cur, Head(chars)))

RECURSIVE JsonStringify(_)
RECURSIVE StringifyItems(_)
RECURSIVE StringifyMembers(_)

StringifyItems(items) ==
    IF items = <<>> THEN <<>>
    ELSE IF Len(items) = 1 THEN JsonStringify(items[1])
    ELSE JsonStringify(items[1]) \o <<",">> \o StringifyItems(Tail(items))

StringifyMembers(members) ==
    IF members = <<>> THEN <<>>
    ELSE LET m == <<"\"">> \o members[1].key \o <<"\"", ":">>
                  \o JsonStringify(members[1].val)
         IN IF Len(members) = 1 THEN m
            ELSE m \o <<",">> \o StringifyMembers(Tail(members))

\* JSON.stringify
JsonStringify(value) ==
    CASE value.type = "boolean" -> IF value.b THEN <<"true">> ELSE <<"false">>
      [] value.type = "number" -> IF value.n = 0 THEN <<"0">> ELSE <<"1">>
      [] value.type = "null" -> <<"null">>
      [] value.type = "string" -> <<"\"">> \o value.chars \o <<"\"">>
      [] value.type = "array" -> <<"[">> \o StringifyItems(value.items) \o <<"]">>
      [] value.type = "object" -> <<"{">> \o StringifyMembers(value.members) \o <<"}">>

Parsed(v, rest) == [v |-> v, rest |-> rest]

RECURSIVE ParseValue(_)
RECURSIVE ParseChars(_, _)
RECURSIVE ParseItems(_, _)
RECURSIVE ParseMembers(_, _)

\* the characters of a string up to its closing quote
ParseChars(text, acc) ==
    IF Head(text) = "\"" THEN Parsed(acc, Tail(text))
    ELSE ParseChars(Tail(text), Append(acc, Head(text)))

\* the items of an array after '[' or ','
ParseItems(text, acc) ==
    LET item == ParseValue(text)
    IN IF Head(item.rest) = ","
       THEN ParseItems(Tail(item.rest), Append(acc, item.v))
       ELSE Parsed(Array(Append(acc, item.v)), Tail(item.rest))

\* the members of an object after '{' or ','
ParseMembers(text, acc) ==
    LET key == ParseChars(Tail(text), <<>>)
        val == ParseValue(Tail(key.rest))
        members == Append(acc, Member(key.v, val.v))
    IN IF Head(val.rest) = ","
       THEN ParseMembers(Tail(val.rest), members)
       ELSE Parsed(JObject(members), Tail(val.rest))

\* one JSON value at the head of the text
ParseValue(text) ==
    LET h == Head(text)
        t == Tail(text)
    IN CASE h = "true" -> Parsed(JBool(TRUE), t)
         [] h = "false" -> Parsed(JBool(FALSE), t)
         [] h = "null" -> Parsed(JNull, t)
         [] h = "0" -> Parsed(JNum(0), t)
         [] h = "1" -> Parsed(JNum(1), t)
         [] h = "\"" -> LET s == ParseChars(t, <<>>) IN Parsed(JStr(s.v), s.rest)
         [] h = "[" -> IF Head(t) = "]" THEN Parsed(Array(<<>>), Tail(t))
                       ELSE ParseItems(t, <<>>)
         [] h = "{" -> IF Head(t) = "}" THEN Parsed(JObject(<<>>), Tail(t))
                       ELSE ParseMembers(t, <<>>)

\* JSON.parse
JsonParse(text) == ParseValue(text).v

\* the truth value JavaScript gives a stored string or number
TruthyValue(value) ==
    CASE value.type = "string" -> value.chars # <<>>
      [] value.type = "number" -> value.n # 0
      [] OTHER -> FALSE

\* the field types with a caster
CastTypes == {"boolean", "json", "list", "date", "time", "timestamp"}

\* dump of the caster registered for the type
TypeDump(type, value) ==
    CASE type = "boolean" -> JNum(IF value.b THEN 1 ELSE 0)
      [] type = "json" -> JStr(JsonStringify(value))
      [] type = "list" ->
           IF value.type = "array" THEN JStr(JoinWith(value.items, ",")) ELSE value
      [] type \in {"date", "time", "timestamp"} ->
           IF value.type = "null" THEN JNull ELSE JNum(value.ms)

\* load of the caster registered for the type
TypeLoad(type, value, initial) ==
    CASE type = "boolean" -> JBool(TruthyValue(value))
      [] type = "json" ->
           IF TruthyValue(value) THEN JsonParse(value.chars) ELSE initial
      [] type = "list" ->
           IF TruthyValue(value) THEN Array(SplitAt(value.chars, ",", <<>>))
           ELSE Array(<<>>)
      [] type \in {"date", "time", "timestamp"} ->
           IF value.type = "null" THEN JNull ELSE JDate(value.n)

\* Caster.dump for one field
CasterDump(type, value) ==
    IF type \in CastTypes THEN TypeDump(type, value) ELSE value

\* Caster.load for one field
CasterLoad(type, value, initial) ==
    IF type \in CastTypes THEN TypeLoad(type, value, initial) ELSE value

\* the non-null values of the fields of each type
CastInputs ==
    {<<"boolean", JBool(b)>> : b \in BOOLEAN}
    \cup {<<"json", v>> : v \in JsonValues}
    \cup {<<"list", v>> : v \in Lists}
    \cup {<<t, JDate(ms)>> : t \in {"date", "time", "timestamp"}, ms \in {0, 1}}
    \cup {<<"string", v>> : v \in Strings}

Casting(phase, type, x, dumped, loaded) ==
    [phase |-> phase, type |-> type, x |-> x, dumped |-> dumped, loaded |-> loaded]

InitCast ==
    /\ driver = "sqlite"
    /\ rows = {}
    /\ seq = 0
    /\ IdleOp
    /\ IdleCalls
    /\ IdleOrder
    /\ IdleSchema
    /\ IdleQueue
    /\ IdleSnap
    /\ IdleMisc
    /\ \E i \in CastInputs : cast = Casting("input", i[1], i[2], Undefined, Undefined)

castFrame ==
    <<driver, dbVars, opVars, callVars, orderVars, schemaVars, queueVars, snapVars,
      miscVars>>

\* the value is written: Caster.dump
CastDump ==
    /\ cast.phase = "input"
    /\ cast' = [cast EXCEPT !.phase = "dumped", !.dumped = CasterDump(cast.type, cast.x)]
    /\ UNCHANGED castFrame

\* the stored value is read: Caster.load
CastLoad ==
    /\ cast.phase = "dumped"
    /\ cast' = [cast EXCEPT !.phase = "loaded",
                            !.loaded = CasterLoad(cast.type, cast.dumped, JNull)]
    /\ UNCHANGED castFrame

NextCast ==
    \/ CastDump
    \/ CastLoad

SpecCast == InitCast /\ [][NextCast]_vars

(***************************************************************************)
(* drop.  The database holds live tables, each with its rows (here: how    *)
(* many); the model registry (database.tables) holds the names declared    *)
(* with extend.  SQLiteDriver.drop(table) runs DROP TABLE for the named    *)
(* table, or for every registered table in turn, and DROP TABLE of a table *)
(* that is not live throws.  MySQLDriver.drop() takes no argument: it      *)
(* reads the names of all tables of the schema and drops them in one       *)
(* command, which holds several statements when there are several tables.  *)
(***************************************************************************)
TableNames == {"temp1", "temp2", "temp3"}

TableOrder == <<"temp1", "temp2", "temp3">>

NoArg == ""

\* the live tables without those of the set S
Without(live, S) == [n \in (DOMAIN live) \ S |-> live[n]]

RECURSIVE SQLiteDropAll(_, _)
\* for (const table of tables) this.#run(`DROP TABLE ...`)
SQLiteDropAll(live, names) ==
    IF names = <<>> THEN [live |-> live, ok |-> TRUE]
    ELSE IF Head(names) \notin DOMAIN live THEN [live |-> live, ok |-> FALSE]
    ELSE SQLiteDropAll(Without(live, {Head(names)}), Tail(names))

\* SQLiteDriver.drop(table?)
SQLiteDrop(live, registered, arg) ==
    IF arg # NoArg
    THEN IF arg \in DOMAIN live THEN [live |-> Without(live, {arg}), ok |-> TRUE]
         ELSE [live |-> live, ok |-> FALSE]
    ELSE SQLiteDropAll(live, SelectSeq(TableOrder, LAMBDA n : n \in registered))

\* MySQLDriver.drop(): the argument of the caller is not a parameter
MySQLDrop(live, multi, arg) ==
    IF DOMAIN live = {} THEN [live |-> live, ok |-> TRUE]
    ELSE IF Cardinality(DOMAIN live) > 1 /\ ~multi THEN [live |-> live, ok |-> FALSE]
    ELSE [live |-> Without(live, DOMAIN live), ok |-> TRUE]

InitDrop ==
    /\ driver \in {"sqlite", "mysql"}
    /\ rows = {}
    /\ seq = 0
    /\ IdleOp
    /\ IdleCalls
    /\ IdleSchema
    /\ IdleQueue
    /\ IdleSnap
    /\ IdleCast
    /\ multipleStatements \in BOOLEAN
    /\ issued = <<>>
    /\ queryTasks = <<>>
    /\ ticks = 0
    /\ poolLog = <<>>
    /\ executed = 0
    /\ results = <<>>
    /\ registry \in SUBSET TableNames
    /\ \E S \in SUBSET TableNames :
         \E live \in [S -> 0 .. 1] : tables = [live |-> live, was |-> live, arg |-> NoArg]
    /\ conn = "undefined"
    /\ life = <<>>
    /\ loop = <<>>
    /\ pure = <<>>
    /\ migration = <<>>

dropFrame ==
    <<driver, dbVars, callVars, orderVars, schemaVars, queueVars, snapVars, castVars,
      registry, conn, life, loop, pure, migration,
      opQuery, opObj, opItems, stmts, got, ret, before>>

\* drop(arg): arg names a table, or is NoArg for drop()
Drop(arg) ==
    /\ op = "none"
    /\ LET r == IF driver = "sqlite" THEN SQLiteDrop(tables.live, registry, arg)
                ELSE MySQLDrop(tables.live, multipleStatements, arg)
       IN /\ tables' = [live |-> r.live, was |-> tables.live, arg |-> arg]
          /\ ok' = r.ok
    /\ op' = "drop"
    /\ UNCHANGED dropFrame

\* the caller takes the outcome of the drop
DropReturn ==
    /\ op = "drop"
    /\ op' = "none"
    /\ ok' = TRUE
    /\ tables' = [tables EXCEPT !.was = tables.live, !.arg = NoArg]
    /\ UNCHANGED dropFrame

NextDrop ==
    \/ \E arg \in TableNames \cup {NoArg} : Drop(arg)
    \/ DropReturn

SpecDrop == InitDrop /\ [][NextDrop]_vars

(***************************************************************************)
(* start and stop.  conn is the driver's connection object (this.db of the *)
(* SQLite driver, this.pool of the MySQL driver): "undefined" until start  *)
(* has assigned it, then "open", and "closed" once it was closed or ended. *)
(* Closing a closed database and ending an ended pool do nothing.  life is *)
(* the record of the calls made so far.                                    *)
(***************************************************************************)
MaxLife == 5

\* start(): this.db = new sqlite.Database(buffer) / this.pool = createPool(config)
DriverStart(c) == [conn |-> "open", ok |-> TRUE]

\* SQLiteDriver.stop(): this.db?.close()
SQLiteStop(c) ==
    IF c = "undefined" THEN [conn |-> c, ok |-> TRUE] ELSE [conn |-> "closed", ok |-> TRUE]

\* MySQLDriver.stop(): this.pool.end(); a property read of undefined throws
MySQLStop(c) ==
    IF c = "undefined" THEN [conn |-> c, ok |-> FALSE] ELSE [conn |-> "closed", ok |-> TRUE]

InitLife ==
    /\ driver \in {"sqlite", "mysql"}
    /\ rows = {}
    /\ seq = 0
    /\ IdleOp
    /\ IdleCalls
    /\ IdleOrder
    /\ IdleSchema
    /\ IdleQueue
    /\ IdleSnap
    /\ IdleCast
    /\ tables = <<>>
    /\ registry = {}
    /\ conn = "undefined"
    /\ life = <<>>
    /\ loop = <<>>
    /\ pure = <<>>
    /\ migration = <<>>

lifeFrame ==
    <<driver, dbVars, opVars, callVars, orderVars, schemaVars, queueVars, snapVars, castVars,
      tables, registry, loop, pure, migration>>

\* one entry of life
Called(call, c, r) == [call |-> call, ok |-> r.ok, from |-> c, to |-> r.conn]

StartDriver ==
    /\ Len(life) < MaxLife
    /\ \E r \in {DriverStart(conn)} :
         /\ conn' = r.conn
         /\ life' = Append(life, Called("start", conn, r))
    /\ UNCHANGED lifeFrame

StopDriver ==
    /\ Len(life) < MaxLife
    /\ \E r \in {IF driver = "sqlite" THEN SQLiteStop(conn) ELSE MySQLStop(conn)} :
         /\ conn' = r.conn
         /\ life' = Append(life, Called("stop", conn, r))
    /\ UNCHANGED lifeFrame

NextLife ==
    \/ StartDriver
    \/ StopDriver

SpecLife == InitLife /\ [][NextLife]_vars

(***************************************************************************)
(* Compilation and I/O.  Every operation compiles its query into SQL       *)
(* (parseQuery, parseEval) and submits statements.  An item or a query is  *)
(* "bad" when its compilation throws (a $el under which is neither a       *)
(* scalar nor an array) and "good" otherwise.  get, set, remove and eval   *)
(* compile once, before the first statement, and so does the MySQL upsert. *)
(* The SQLite upsert walks its data in chunks of floor(960 / |keys|) items *)
(* and compiles the query of a chunk when it comes to that chunk.  loop    *)
(* holds the call: its operation, the key count, the data, the index i of  *)
(* the for loop, the number of statements submitted, the items processed   *)
(* and the size of the largest chunk.                                      *)
(***************************************************************************)
MaxItems == 3

KeyCounts == {1, 2, TreeBudget \div 2, TreeBudget, TreeBudget + 1}

Kinds == {"good", "bad"}

DataLists == UNION {[1 .. n -> Kinds] : n \in 0 .. MaxItems}

SimpleOps == {"get", "set", "remove", "eval"}

NoLoop ==
    [op |-> "none", status |-> "idle", nkeys |-> 1, data |-> <<>>, i |-> 0,
     stmts |-> 0, processed |-> <<>>, maxChunk |-> 0]

\* const step = Math.floor(960 / keys.length)
StepOf(nkeys) == TreeBudget \div nkeys

\* data.slice(i, i + step), as the indices (from 1) of its items
ChunkAt(items, i, step) == {k \in 1 .. Len(items) : i < k /\ k <= i + step}

Max(a, b) == IF a > b THEN a ELSE b

\* the indices of S in increasing order
RECURSIVE InOrderOf(_)
InOrderOf(S) ==
    IF S = {} THEN <<>>
    ELSE LET m == CHOOSE x \in S : \A y \in S : x <= y
         IN <<m>> \o InOrderOf(S \ {m})

\* one pass of the body of the for loop of SQLiteDriver.upsert
ChunkBody(l) ==
    LET chunk == ChunkAt(l.data, l.i, StepOf(l.nkeys))
    IN IF \E k \in chunk : l.data[k] = "bad"
       THEN [l EXCEPT !.status = "rejected"]
       ELSE [l EXCEPT !.i = l.i + StepOf(l.nkeys),
                      !.stmts = l.stmts + (IF chunk = {} THEN 0 ELSE 1 + Cardinality(chunk)),
                      !.processed = l.processed \o InOrderOf(chunk),
                      !.maxChunk = Max(l.maxChunk, Cardinality(chunk))]

InitChunk ==
    /\ driver \in {"sqlite", "mysql"}
    /\ rows = {}
    /\ seq = 0
    /\ IdleOp
    /\ IdleCalls
    /\ IdleOrder
    /\ IdleSchema
    /\ IdleQueue
    /\ IdleSnap
    /\ IdleCast
    /\ tables = <<>>
    /\ registry = {}
    /\ conn = "undefined"
    /\ life = <<>>
    /\ loop = NoLoop
    /\ pure = <<>>
    /\ migration = <<>>

chunkFrame ==
    <<driver, dbVars, opVars, callVars, orderVars, schemaVars, queueVars, snapVars, castVars,
      tables, registry, conn, life, pure, migration>>

\* get, set, remove, eval: the query is compiled, then the statements are submitted
CallSimple(o, kind) ==
    /\ loop.status = "idle"
    /\ loop' = [NoLoop EXCEPT !.op = o, !.data = <<kind>>,
                              !.status = IF kind = "bad" THEN "rejected" ELSE "resolved",
                              !.stmts = IF kind = "bad" THEN 0 ELSE 1]
    /\ UNCHANGED chunkFrame

\* MySQLDriver.upsert: the filters of all items are compiled, then one statement
MySQLUpsertCall(items, nkeys) ==
    /\ loop.status = "idle"
    /\ driver = "mysql"
    /\ loop' = IF items = <<>> THEN [NoLoop EXCEPT !.op = "upsert", !.status = "resolved"]
               ELSE IF \E k \in 1 .. Len(items) : items[k] = "bad"
               THEN [NoLoop EXCEPT !.op = "upsert", !.data = items, !.nkeys = nkeys,
                                   !.status = "rejected"]
               ELSE [NoLoop EXCEPT !.op = "upsert", !.data = items, !.nkeys = nkeys,
                                   !.status = "resolved", !.stmts = 1,
                                   !.processed = InOrderOf(1 .. Len(items)),
                                   !.maxChunk = 0]
    /\ UNCHANGED chunkFrame

\* SQLiteDriver.upsert up to the head of its for loop
SQLiteUpsertCall(items, nkeys) ==
    /\ loop.status = "idle"
    /\ driver = "sqlite"
    /\ loop' = [NoLoop EXCEPT !.op = "upsert", !.data = items, !.nkeys = nkeys,
                              !.status = IF items = <<>> THEN "resolved" ELSE "running"]
    /\ UNCHANGED chunkFrame

\* the for loop: its test and, when it holds, one pass of its body
ChunkStep ==
    /\ loop.status = "running"
    /\ loop' = IF loop.i < Len(loop.data) THEN ChunkBody(loop)
               ELSE [loop EXCEPT !.status = "resolved"]
    /\ UNCHANGED chunkFrame

\* the caller takes the outcome
ChunkReturn ==
    /\ loop.status \in {"resolved", "rejected"}
    /\ loop' = NoLoop
    /\ UNCHANGED chunkFrame

NextChunk ==
    \/ \E o \in SimpleOps, kind \in Kinds : CallSimple(o, kind)
    \/ \E items \in DataLists, nkeys \in KeyCounts : MySQLUpsertCall(items, nkeys)
    \/ \E items \in DataLists, nkeys \in KeyCounts : SQLiteUpsertCall(items, nkeys)
    \/ ChunkStep
    \/ ChunkReturn

SpecChunk == InitChunk /\ [][NextChunk]_vars

\* the loop goes on as long as its test holds
SpecChunkFair == SpecChunk /\ WF_vars(ChunkStep)

(***************************************************************************)
(* The builder's pure functions, applied to inputs of bounded size.  pure  *)
(* holds one application: the function, its argument and, once it is made, *)
(* its result.                                                             *)
(***************************************************************************)
MaxKids == 2

\* the sequences over S of at most n elements
UpTo(S, n) == UNION {[1 .. k -> S] : k \in 0 .. n}

\* compiled conditions: the constants, two comparisons, an AND text, an OR text
Conditions ==
    {Sql0, Sql1, SqlCmp("id", "=", 1), SqlCmp("text", "=", 1),
     SqlAnd(<<SqlCmp("id", "=", 1), SqlCmp("text", "=", 1)>>),
     SqlOr(<<SqlCmp("id", "=", 1), SqlCmp("text", "=", 1)>>)}

\* queries without $and and $or: {}, {id: []}, {id: 1}, {text: 1}
FlatQueries ==
    {QExpr(<<>>), QExpr(<<QField("id", FArray(<<>>))>>),
     QExpr(<<QField("id", FScalar(1))>>), QExpr(<<QField("text", FScalar(1))>>)}

\* {$and: [...]} and {$or: [...]} over the queries of S
Junctions(S) ==
    {QExpr(<<QAnd(qs)>>) : qs \in UpTo(S, MaxKids)}
    \cup {QExpr(<<QOr(qs)>>) : qs \in UpTo(S, MaxKids)}

NestedQueries == FlatQueries \cup Junctions(FlatQueries)

\* trees of $and, $or and field queries, two junctions deep
QueryTrees ==
    NestedQueries
    \cup {QExpr(<<QAnd(<<a, b>>)>>) : a \in NestedQueries, b \in FlatQueries}
    \cup {QExpr(<<QAnd(<<b, a>>)>>) : a \in NestedQueries, b \in FlatQueries}
    \cup {QExpr(<<QOr(<<a, b>>)>>) : a \in NestedQueries, b \in FlatQueries}
    \cup {QExpr(<<QOr(<<b, a>>)>>) : a \in NestedQueries, b \in FlatQueries}
    \cup {QExpr(a.kids \o b.kids) : a \in NestedQueries, b \in FlatQueries}
    \cup {QExpr(b.kids \o a.kids) : a \in NestedQueries, b \in FlatQueries}

\* the applications of the model, not yet made
PureInputs ==
    {[fn |-> "logicalAnd", conditions |-> cs, done |-> FALSE] : cs \in UpTo(Conditions, MaxKids)}
    \cup {[fn |-> "logicalOr", conditions |-> cs, done |-> FALSE] : cs \in UpTo(Conditions, MaxKids)}
    \cup {[fn |-> "parseQuery", query |-> q, done |-> FALSE] : q \in QueryTrees}

InitLogic ==
    /\ driver = "sqlite"
    /\ rows = {}
    /\ seq = 0
    /\ IdleOp
    /\ IdleCalls
    /\ IdleOrder
    /\ IdleSchema
    /\ IdleQueue
    /\ IdleSnap
    /\ IdleCast
    /\ tables = <<>>
    /\ registry = {}
    /\ conn = "undefined"
    /\ life = <<>>
    /\ loop = <<>>
    /\ pure \in PureInputs
    /\ migration = <<>>

logicFrame ==
    <<driver, dbVars, opVars, callVars, orderVars, schemaVars, queueVars, snapVars, castVars,
      tables, registry, conn, life, loop, migration>>

ApplyLogicalAnd ==
    /\ pure.fn = "logicalAnd"
    /\ ~pure.done
    /\ pure' = [fn |-> "logicalAnd", conditions |-> pure.conditions, done |-> TRUE,
                out |-> LogicalAnd(pure.conditions)]
    /\ UNCHANGED logicFrame

ApplyLogicalOr ==
    /\ pure.fn = "logicalOr"
    /\ ~pure.done
    /\ pure' = [fn |-> "logicalOr", conditions |-> pure.conditions, done |-> TRUE,
                out |-> LogicalOr(pure.conditions)]
    /\ UNCHANGED logicFrame

ApplyParseQuery ==
    /\ pure.fn = "parseQuery"
    /\ ~pure.done
    /\ pure' = [fn |-> "parseQuery", query |-> pure.query, done |-> TRUE,
                out |-> ParseQuery(pure.query)]
    /\ UNCHANGED logicFrame

NextLogic ==
    \/ ApplyLogicalAnd
    \/ ApplyLogicalOr
    \/ ApplyParseQuery

SpecLogic == InitLogic /\ [][NextLogic]_vars

(***************************************************************************)
(* The update of MySQL upsert for items that hold eval expressions.  An    *)
(* item is its constant entries (const, the key values among them) and its *)
(* entries that are eval expressions (evals).  For every update field the  *)
(* driver groups the items by the text of toUpdateExpr, gives each group   *)
(* the filter of its items' keys, and nests the groups into                *)
(* if(filter_n, expr_n, ... if(filter_2, expr_2, expr_1)), which the       *)
(* server evaluates on the conflicting row.                                *)
(***************************************************************************)
MaxChain == 3

UpsertItem(const, evals) == [const |-> const, evals |-> evals]

\* the object the caller wrote: every entry of the item
ItemObject(item) == Merge(item.const, item.evals)

\* VALUES(`field`)
SqlValues(field) == [x |-> "values", v |-> 0, col |-> field, kids |-> <<>>]

\* MySQLDriver.toUpdateExpr(table, item, field, true): parseEval of an eval
\* expression, VALUES(`field`) for a constant, `field` when the item does
\* not mention the field
ToUpdateExprEval(item, field) ==
    IF Has(item.evals, field) THEN ParseEval(item.evals[field])
    ELSE IF Has(item.const, field) THEN SqlValues(field)
    ELSE SqlCol(field)

\* the keys of branches for items with eval expressions, in order of first use
RECURSIVE BranchExprsEval(_, _, _)
BranchExprsEval(data, field, acc) ==
    IF data = <<>> THEN acc
    ELSE LET e == ToUpdateExprEval(Head(data), field)
         IN BranchExprsEval(Tail(data), field,
                            IF e \in Range(acc) THEN acc ELSE Append(acc, e))

\* the entries of one update field: [filter, expr], longest filter first
UpdateEntriesEval(data, field, keys) ==
    LET exprs == BranchExprsEval(data, field, <<>>)
        entries == MapSeq(
                     LAMBDA expr :
                       [filter |-> CreateMultiFilter(
                                     MapSeq(LAMBDA item : item.const,
                                            SelectSeq(data, LAMBDA item :
                                                        ToUpdateExprEval(item, field) = expr)),
                                     keys),
                        expr |-> expr],
                     exprs)
    IN Reverse(SortByLength(entries))

\* the expression if(filter_n, expr_n, ... if(filter_2, expr_2, expr_1))
\* comes to on the conflicting row cur
RECURSIVE IfChain(_, _, _)
IfChain(entries, index, cur) ==
    IF index = 1 THEN entries[1].expr
    ELSE IF SqlEval(entries[index].filter, cur) = "T" THEN entries[index].expr
    ELSE IfChain(entries, index - 1, cur)

\* the two eval expressions callers give for text
ChainExprs == {EAdd(ERef("text"), ELit(1)), EMultiply(ERef("text"), ELit(2))}

\* what an item says of text: nothing, a constant, an expression
TextOptions ==
    {UpsertItem(EmptyObj, EmptyObj), UpsertItem(Obj1("text", 1), EmptyObj)}
    \cup {UpsertItem(EmptyObj, Obj1("text", e)) : e \in ChainExprs}

\* what an item says of text and num: as above of text, or an expression
\* for num beside nothing or a constant for text
TextNumOptions ==
    TextOptions
    \cup {UpsertItem(EmptyObj, Obj1("num", EAdd(ERef("num"), ELit(1)))),
          UpsertItem(Obj1("text", 1), Obj1("num", EAdd(ERef("num"), ELit(1))))}

Combine(a, b) == UpsertItem(Merge(a.const, b.const), Merge(a.evals, b.evals))

\* the key objects of the items: id alone, or id and num
KeysById == {UpsertItem(Obj1("id", i), EmptyObj) : i \in 1 .. MaxChain}

KeysByIdNum == {UpsertItem(Obj2("id", i, "num", v), EmptyObj) : i \in 1 .. 2, v \in {0, 1}}

\* the lists of one to MaxChain key objects, no two of them the same
KeyLists(K) ==
    {ks \in UpTo(K, MaxChain) : ks # <<>> /\ \A i, j \in DOMAIN ks : i < j => ks[i] # ks[j]}

\* the lists of items: a list of keys, and for each what the item says of
\* the other fields
DataOver(K, Options) ==
    UNION {{[p \in DOMAIN ks |-> Combine(ks[p], o[p])] : o \in [DOMAIN ks -> Options]} :
             ks \in KeyLists(K)}

\* no two items carry the same key tuple
PairwiseDifferent(data, keys) ==
    \A i, j \in DOMAIN data :
      i < j => \E k \in Range(keys) : data[i].const[k] # data[j].const[k]

\* the calls of the model, not yet made
ChainInputs ==
    {[keys |-> <<"id">>, data |-> d, done |-> FALSE] :
       d \in DataOver(KeysById, TextNumOptions)}
    \cup {[keys |-> <<"id", "num">>, data |-> d, done |-> FALSE] :
            d \in DataOver(KeysByIdNum, TextOptions)}

InitChain ==
    /\ driver = "mysql"
    /\ rows = {}
    /\ seq = 0
    /\ IdleOp
    /\ IdleCalls
    /\ IdleOrder
    /\ IdleSchema
    /\ IdleQueue
    /\ IdleSnap
    /\ IdleCast
    /\ tables = <<>>
    /\ registry = {}
    /\ conn = "undefined"
    /\ life = <<>>
    /\ loop = <<>>
    /\ pure \in ChainInputs
    /\ PairwiseDifferent(pure.data, pure.keys)
    /\ migration = <<>>

\* the update of upsert(T, data, keys), met by the row that conflicts with
\* item i: what each update field is assigned
UpsertConflict(i) ==
    /\ ~pure.done
    /\ i \in DOMAIN pure.data
    /\ LET data == pure.data
           keys == pure.keys
           dataFields == DataFieldsOf(MapSeq(LAMBDA item : ItemObject(item), data), <<>>)
           updateFields == Difference(dataFields, keys)
           cur == [f \in Fields |->
                     IF f \in Range(keys) THEN data[i].const[f] ELSE 0]
       IN pure' = [keys |-> keys, data |-> data, done |-> TRUE, hit |-> i,
                   assigned |->
                     [f \in Range(updateFields) |->
                        LET entries == UpdateEntriesEval(data, f, keys)
                        IN IfChain(entries, Len(entries), cur)]]
    /\ UNCHANGED logicFrame

NextChain == \E i \in 1 .. MaxChain : UpsertConflict(i)

SpecChain == InitChain /\ [][NextChain]_vars

(***************************************************************************)
(* Schema synchronization: prepare(T).  A column is its name, declared     *)
(* type, NOT NULL flag and DEFAULT (Null: none); a table is its columns in *)
(* order and its rows, each row the tuple of its values in column order;   *)
(* a table that does not exist has no columns (PRAGMA table_info and       *)
(* information_schema.columns then return no row).  A declared field is    *)
(* its name, type, legacy aliases, nullable flag, initial value and        *)
(* deprecated flag; field id is the auto-increment primary key.  No        *)
(* migration hook is registered on the model.                              *)
(***************************************************************************)
MaxRows == 2

Column(name, type, notnull, dflt) ==
    [name |-> name, type |-> type, notnull |-> notnull, dflt |-> dflt]

Field(name, type, legacy, nullable, initial, deprecated) ==
    [name |-> name, type |-> type, legacy |-> legacy, nullable |-> nullable,
     initial |-> initial, deprecated |-> deprecated]

Names(defs) == {defs[i].name : i \in DOMAIN defs}

\* the position of the column of a name in a table's columns, 0 if none
ColIndex(cols, name) ==
    LET hits == {i \in DOMAIN cols : cols[i].name = name}
    IN IF hits = {} THEN 0 ELSE CHOOSE i \in hits : \A j \in hits : i <= j

\* function getTypeDef of the SQLite driver
GetTypeDef(type) ==
    CASE type \in {"primary", "boolean", "integer", "unsigned", "date", "time",
                   "timestamp"} -> "INTEGER"
      [] type \in {"float", "double", "decimal"} -> "REAL"
      [] type \in {"char", "string", "text", "list", "json"} -> "TEXT"
      [] OTHER -> "undefined"

\* function getTypeDefinition of the MySQL driver, length left out
GetTypeDefinition(type) ==
    CASE type \in {"float", "double", "date", "time"} -> type
      [] type = "timestamp" -> "datetime"
      [] type = "integer" -> "int"
      [] type = "unsigned" -> "int unsigned"
      [] type = "char" -> "char(255)"
      [] type = "string" -> "varchar(255)"
      [] type \in {"text", "list", "json"} -> "text(65535)"
      [] OTHER -> "undefined"

\* what prepare leaves behind: table T, table T_temp, whether it resolved,
\* the statements it ran, the branch it took and whether the INSERT failed
PrepRes(t, temp, resolved, ran, branch, insertFailed) ==
    [table |-> t, temp |-> temp, ok |-> resolved, stmts |-> ran, branch |-> branch,
     insertFailed |-> insertFailed]

\* columns.find(({ name }) => legacy.includes(name)): the first live column
\* named like the field or one of its aliases (its position, 0 if none)
FindColumn(columns, legacy) ==
    LET hits == {i \in DOMAIN columns : columns[i].name \in Range(legacy)}
    IN IF hits = {} THEN 0 ELSE CHOOSE i \in hits : \A j \in hits : i <= j

\* mapping[from] = to on an object whose keys keep their insertion order
SetMapping(mapping, from, to) ==
    IF \E i \in DOMAIN mapping : mapping[i].from = from
    THEN [i \in DOMAIN mapping |->
            IF mapping[i].from = from THEN [from |-> from, to |-> to] ELSE mapping[i]]
    ELSE Append(mapping, [from |-> from, to |-> to])

\* the column definition of a declared field (SQLite)
SQLiteColumnDef(f) ==
    IF f.name = Primary
    THEN Column(f.name, GetTypeDef(f.type), TRUE, Null)
    ELSE Column(f.name, GetTypeDef(f.type), ~f.nullable, f.initial)

\* a live column found for a field asks for a migration on any difference
ShouldMigrateAlways(column, key, typedef) == TRUE

\* column.name !== key || column.type !== typedef
ShouldMigrate(column, key, typedef) == column.name # key \/ column.type # typedef

\* prepare, field definitions: columnDefs, alter, mapping, shouldMigrate
RECURSIVE SQLiteFieldDefs(_, _, _, _)
SQLiteFieldDefs(columns, fields, dropKeys, acc) ==
    IF fields = <<>> THEN acc
    ELSE LET f == Head(fields)
             c == FindColumn(columns, <<f.name>> \o f.legacy)
             def == SQLiteColumnDef(f)
         IN IF f.deprecated
            THEN SQLiteFieldDefs(columns, Tail(fields), dropKeys,
                     [acc EXCEPT !.shouldMigrate = @ \/ f.name \in Range(dropKeys)])
            ELSE SQLiteFieldDefs(columns, Tail(fields), dropKeys,
                     [columnDefs |-> Append(acc.columnDefs, def),
                      alter |-> IF c = 0 THEN Append(acc.alter, def) ELSE acc.alter,
                      mapping |-> IF c = 0 THEN acc.mapping
                                  ELSE SetMapping(acc.mapping, columns[c].name, f.name),
                      shouldMigrate |-> acc.shouldMigrate \/
                          (c # 0 /\ ShouldMigrate(columns[c], f.name, def.type))])

\* prepare that preserves no old column
PreserveNone(columns, dropKeys, acc) == acc

\* prepare, preserve old columns: a live column neither mapped nor dropped
\* goes to the temporary table under its own name
RECURSIVE PreserveOld(_, _, _)
PreserveOld(columns, dropKeys, acc) ==
    IF columns = <<>> THEN acc
    ELSE LET col == Head(columns)
         IN IF \/ \E i \in DOMAIN acc.mapping : acc.mapping[i].from = col.name
               \/ col.name \in Range(dropKeys)
            THEN PreserveOld(Tail(columns), dropKeys, acc)
            ELSE PreserveOld(Tail(columns), dropKeys,
                     [acc EXCEPT !.columnDefs = Append(@, col),
                                 !.mapping = Append(@, [from |-> col.name, to |-> col.name])])

\* CREATE TABLE succeeds when the column names differ from one another
CanCreate(columnDefs) ==
    \A i, j \in DOMAIN columnDefs : i # j => columnDefs[i].name # columnDefs[j].name

\* INSERT INTO temp SELECT fields FROM t: the values are taken by position;
\* fails when the number of values is not the number of columns of temp or
\* a NULL meets a NOT NULL column
InsertSelect(t, columnDefs, fields) ==
    LET copy(row) == [i \in DOMAIN columnDefs |-> row[ColIndex(t.cols, fields[i])]]
    IN IF Len(fields) # Len(columnDefs) THEN [ok |-> FALSE, rows |-> {}]
       ELSE IF \E row \in t.rows : \E i \in DOMAIN columnDefs :
                  columnDefs[i].notnull /\ copy(row)[i] = Null
       THEN [ok |-> FALSE, rows |-> {}]
       ELSE [ok |-> TRUE, rows |-> {copy(row) : row \in t.rows}]

\* the migration leaving T_temp behind when the INSERT fails
SQLiteMigrateKeepsTemp(t, columnDefs, mapping) ==
    LET fields == MapSeq(LAMBDA m : m.from, mapping)
        ins == InsertSelect(t, columnDefs, fields)
    IN IF ~CanCreate(columnDefs)
       THEN PrepRes(t, NoTable, FALSE, <<"CREATE temp">>, "migrate", FALSE)
       ELSE IF ~ins.ok
       THEN PrepRes(t, [cols |-> columnDefs, rows |-> {}], FALSE,
                    <<"CREATE temp", "INSERT">>, "migrate", TRUE)
       ELSE PrepRes([cols |-> columnDefs, rows |-> ins.rows], NoTable, TRUE,
                    <<"CREATE temp", "INSERT", "DROP", "RENAME">>, "migrate", FALSE)

\* prepare, migration: CREATE TABLE T_temp; INSERT INTO T_temp SELECT ...;
\* DROP TABLE T; ALTER TABLE T_temp RENAME TO T -- and, when the INSERT
\* throws, DROP TABLE T_temp and rethrow
SQLiteMigrate(t, columnDefs, mapping) ==
    LET fields == MapSeq(LAMBDA m : m.from, mapping)
        ins == InsertSelect(t, columnDefs, fields)
    IN IF ~CanCreate(columnDefs)
       THEN PrepRes(t, NoTable, FALSE, <<"CREATE temp">>, "migrate", FALSE)
       ELSE IF ~ins.ok
       THEN PrepRes(t, NoTable, FALSE,
                    <<"CREATE temp", "INSERT", "DROP temp">>, "migrate", TRUE)
       ELSE PrepRes([cols |-> columnDefs, rows |-> ins.rows], NoTable, TRUE,
                    <<"CREATE temp", "INSERT", "DROP", "RENAME">>, "migrate", FALSE)

\* ALTER TABLE T ADD def (SQLite): refused for a NOT NULL column without a
\* default; the rows take the default in the new column
SQLiteAddColumn(t, def) ==
    IF (def.notnull /\ def.dflt = Null) \/ def.name \in Names(t.cols)
    THEN [ok |-> FALSE, table |-> t]
    ELSE [ok |-> TRUE,
          table |-> [cols |-> Append(t.cols, def),
                     rows |-> {Append(row, def.dflt) : row \in t.rows}]]

\* prepare that runs none of the ALTER TABLE statements
SQLiteAlterNothing(t, alter, ran) == PrepRes(t, NoTable, TRUE, ran, "alter", FALSE)

\* prepare, additive alter: for (const def of alter) ALTER TABLE T ADD def
RECURSIVE SQLiteAlter(_, _, _)
SQLiteAlter(t, alter, ran) ==
    IF alter = <<>> THEN PrepRes(t, NoTable, TRUE, ran, "alter", FALSE)
    ELSE LET r == SQLiteAddColumn(t, Head(alter))
         IN IF ~r.ok THEN PrepRes(r.table, NoTable, FALSE, Append(ran, "ALTER"),
                                  "alter", FALSE)
            ELSE SQLiteAlter(r.table, Tail(alter), Append(ran, "ALTER"))

\* SQLiteDriver.prepare
SQLitePrepare(t, fields, dropKeys) ==
    LET columns == t.cols
        defs == SQLiteFieldDefs(columns, fields, dropKeys,
                    [columnDefs |-> <<>>, alter |-> <<>>, mapping |-> <<>>,
                     shouldMigrate |-> FALSE])
        old == PreserveOld(columns, dropKeys, defs)
    IN IF columns = <<>>
       THEN PrepRes([cols |-> defs.columnDefs, rows |-> {}], NoTable, TRUE,
                    <<"CREATE">>, "create", FALSE)
       ELSE IF defs.shouldMigrate
       THEN SQLiteMigrate(t, old.columnDefs, old.mapping)
       ELSE IF defs.alter # <<>>
       THEN SQLiteAlter(t, defs.alter, <<>>)
       ELSE PrepRes(t, NoTable, TRUE, <<>>, "none", FALSE)

\* a JavaScript value that counts as true
Truthy(v) == v \notin {Null, 0}

\* the column definition of a declared field (MySQL)
MySQLColumnDef(f) ==
    IF f.name = Primary
    THEN Column(f.name, "int unsigned", TRUE, Null)
    ELSE LET typedef == GetTypeDefinition(f.type)
         IN Column(f.name, typedef, ~f.nullable,
                   IF Truthy(f.initial) /\ typedef # "text(65535)" THEN f.initial
                   ELSE Null)

\* MySQLDriver._getColDefs: the definitions of the fields that have no live
\* column of their name
RECURSIVE GetColDefs(_, _)
GetColDefs(columns, fields) ==
    IF fields = <<>> THEN <<>>
    ELSE LET f == Head(fields)
             rest == GetColDefs(columns, Tail(fields))
         IN IF ColIndex(columns, f.name) = 0 THEN <<MySQLColumnDef(f)>> \o rest
            ELSE rest

\* ALTER TABLE T ADD def (MySQL): the rows take the default in the new
\* column, the type's zero when it is NOT NULL and has none
MySQLAddColumn(t, def) ==
    LET v == IF def.dflt # Null THEN def.dflt ELSE IF def.notnull THEN 0 ELSE Null
    IN [cols |-> Append(t.cols, def), rows |-> {Append(row, v) : row \in t.rows}]

RECURSIVE MySQLAddColumns(_, _)
MySQLAddColumns(t, create) ==
    IF create = <<>> THEN t
    ELSE MySQLAddColumns(MySQLAddColumn(t, Head(create)), Tail(create))

\* MySQLDriver.prepare
MySQLPrepare(t, fields) ==
    LET columns == t.cols
        create == GetColDefs(columns, fields)
    IN IF columns = <<>>
       THEN PrepRes([cols |-> create, rows |-> {}], NoTable, TRUE, <<"CREATE">>,
                    "create", FALSE)
       ELSE IF create # <<>>
       THEN PrepRes(MySQLAddColumns(t, create), NoTable, TRUE, <<"ALTER">>,
                    "alter", FALSE)
       ELSE PrepRes(t, NoTable, TRUE, <<>>, "none", FALSE)

\* the declared fields of the model
FieldId == Field("id", "unsigned", <<>>, FALSE, Null, FALSE)

TextFields ==
    {Field("text", "string", legacy, nullable, 0, FALSE) :
        legacy \in {<<>>, <<"caption">>}, nullable \in BOOLEAN}

MoreFields ==
    {Field("num", "integer", <<>>, TRUE, 0, FALSE),
     Field("num", "integer", <<>>, FALSE, Null, FALSE),
     Field("old", "integer", <<>>, TRUE, 0, TRUE)}

\* the tables an earlier version of the program left in the database
LiveTables ==
    LET id == Column("id", "INTEGER", TRUE, Null)
    IN {[cols |-> cols, rows |-> {}] :
          cols \in {<<>>,
                    <<id, Column("caption", "TEXT", FALSE, Null)>>,
                    <<id, Column("text", "TEXT", FALSE, 0)>>,
                    <<id, Column("text", "INTEGER", FALSE, Null)>>,
                    <<id, Column("caption", "TEXT", FALSE, Null),
                      Column("old", "INTEGER", FALSE, Null)>>}}

InitPrepare ==
    /\ driver \in {"sqlite", "mysql"}
    /\ rows = {}
    /\ seq = 0
    /\ IdleOp
    /\ IdleExt
    /\ IdleCalls
    /\ IdleOrder
    /\ table \in LiveTables
    /\ tempTable = NoTable
    /\ model \in {<<FieldId, f>> : f \in TextFields}
    /\ synced = [on |-> FALSE, branch |-> "none"]
    /\ prep = NoPrep

\* prepare(T) with the declared model
Prepare ==
    /\ \E r \in {IF driver = "sqlite" THEN SQLitePrepare(table, model, <<>>)
                 ELSE MySQLPrepare(table, model)} :
         /\ table' = r.table
         /\ tempTable' = r.temp
         /\ prep' = [done |-> TRUE, ok |-> r.ok, stmts |-> r.stmts,
                     branch |-> r.branch, insertFailed |-> r.insertFailed,
                     before |-> table, wasSynced |-> synced.on,
                     wasBranch |-> synced.branch]
         /\ synced' = IF ~r.ok THEN [on |-> FALSE, branch |-> "none"]
                      ELSE IF synced.on THEN synced
                      ELSE [on |-> TRUE, branch |-> r.branch]
    /\ UNCHANGED <<driver, extVars, dbVars, opVars, callVars, orderVars, model>>

\* database.extend(T, { field }) declares a further field
Extend(f) ==
    /\ f.name \notin Names(model)
    /\ model' = Append(model, f)
    /\ synced' = [on |-> FALSE, branch |-> "none"]
    /\ prep' = NoPrep
    /\ UNCHANGED <<driver, extVars, dbVars, opVars, callVars, orderVars, table, tempTable>>

\* a row is stored in the live table; its id is new, a NOT NULL column
\* holds a value
InsertRow(row) ==
    /\ table.cols # <<>>
    /\ Cardinality(table.rows) < MaxRows
    /\ \A old \in table.rows : old[1] # row[1]
    /\ \A i \in DOMAIN table.cols : table.cols[i].notnull => row[i] # Null
    /\ table' = [table EXCEPT !.rows = @ \cup {row}]
    /\ prep' = NoPrep
    /\ UNCHANGED <<driver, extVars, dbVars, opVars, callVars, orderVars, tempTable, model, synced>>

\* the rows a table of the given columns can take: an id, then NULL or 1
RowsOf(cols) ==
    {<<id>> \o rest : id \in 1 .. MaxRows,
                      rest \in [1 .. Len(cols) - 1 -> {Null, 1}]}

NextPrepare ==
    \/ Prepare
    \/ \E f \in MoreFields : Extend(f)
    \/ \E row \in RowsOf(table.cols) : InsertRow(row)

SpecPrepare == InitPrepare /\ [][NextPrepare]_vars

\* prepare(T, dropKeys) as the finalize callback of the migration hooks calls
\* it (SQLite): dropKeys are names of live columns that the hooks have
\* handled; the call returns after the synchronization
PrepareDropping(dropKeys) ==
    /\ driver = "sqlite"
    /\ dropKeys # <<>>
    /\ Range(dropKeys) \subseteq Names(table.cols)
    /\ \E r \in {SQLitePrepare(table, model, dropKeys)} :
         /\ table' = r.table
         /\ tempTable' = r.temp
         /\ prep' = [done |-> TRUE, ok |-> r.ok, stmts |-> r.stmts,
                     branch |-> r.branch, insertFailed |-> r.insertFailed,
                     before |-> table, wasSynced |-> synced.on,
                     wasBranch |-> synced.branch, dropKeys |-> dropKeys]
         /\ synced' = IF ~r.ok THEN [on |-> FALSE, branch |-> "none"]
                      ELSE IF synced.on THEN synced
                      ELSE [on |-> TRUE, branch |-> r.branch]
    /\ UNCHANGED <<driver, extVars, dbVars, opVars, callVars, orderVars, model>>

\* the drop-lists of the model
DropLists == {<<"old">>, <<"caption">>, <<"old", "caption">>}

NextMigrate ==
    \/ NextPrepare
    \/ \E dropKeys \in DropLists : PrepareDropping(dropKeys)

SpecMigrate == InitPrepare /\ [][NextMigrate]_vars

(***************************************************************************)
(* Migration hooks (SQLite).  After its synchronization the outer          *)
(* prepare(T) hands the hooks error, before, after and finalize to         *)
(* Driver.migrate and returns; it awaits neither migrate nor the prepare   *)
(* that finalize calls.  Driver.migrate runs the migrations registered on  *)
(* the model in declaration order, each with the names of the deprecated   *)
(* fields it stands for: before(keys), the migration, after(keys); then    *)
(* finalize.  The migrations are asynchronous, so these steps come after   *)
(* the outer prepare has returned.  A migration itself is taken to leave   *)
(* the table as it is.                                                     *)
(***************************************************************************)
NoMigration ==
    [phase |-> "idle", hooks |-> <<>>, next |-> 1, ran |-> <<>>, dropKeys |-> <<>>,
     columns |-> <<>>, passes |-> 0, outer |-> "none", received |-> <<>>]

\* before: keys => keys.every(key => columns.some(({ name }) => name === key))
HookBefore(keys, columns) == Range(keys) \subseteq Names(columns)

\* after: keys => dropKeys.push(...keys)
HookAfter(keys, dropKeys) == dropKeys \o keys

\* the deprecated fields of the model
OldFields ==
    <<Field("old", "integer", <<>>, TRUE, 0, TRUE),
      Field("gone", "integer", <<>>, TRUE, 0, TRUE)>>

\* the migrations a model can register for deprecated fields old and gone
HookLists ==
    {<<>>, <<<<"old">>>>, <<<<"gone">>>>, <<<<"old">>, <<"gone">>>>,
     <<<<"gone">>, <<"old">>>>, <<<<"old", "gone">>>>, <<<<"old">>, <<"old", "gone">>>>}

\* the tables an earlier version of the program left in the database
HookTables ==
    LET id == Column("id", "INTEGER", TRUE, Null)
        text == Column("text", "TEXT", FALSE, 0)
        old == Column("old", "INTEGER", FALSE, Null)
        gone == Column("gone", "INTEGER", FALSE, Null)
    IN {[cols |-> cols, rows |-> {}] :
          cols \in {<<>>, <<id, text>>, <<id, text, old>>, <<id, text, gone>>,
                    <<id, text, old, gone>>, <<id, old, gone>>,
                    <<id, Column("caption", "TEXT", FALSE, Null), old>>}}

InitHooks ==
    /\ driver = "sqlite"
    /\ rows = {}
    /\ seq = 0
    /\ IdleOp
    /\ IdleCalls
    /\ IdleOrder
    /\ IdleQueue
    /\ IdleSnap
    /\ IdleCast
    /\ table \in HookTables
    /\ tempTable = NoTable
    /\ \E f \in TextFields, hooks \in HookLists :
         /\ model = <<FieldId, f>>
                    \o SelectSeq(OldFields,
                                 LAMBDA d : \E i \in DOMAIN hooks : d.name \in Range(hooks[i]))
         /\ migration = [NoMigration EXCEPT !.hooks = hooks,
                                            !.ran = [i \in DOMAIN hooks |-> 0]]
    /\ synced = [on |-> FALSE, branch |-> "none"]
    /\ prep = NoPrep
    /\ tables = <<>>
    /\ registry = {}
    /\ conn = "undefined"
    /\ life = <<>>
    /\ loop = <<>>
    /\ pure = <<>>

hooksFrame ==
    <<driver, dbVars, opVars, callVars, orderVars, queueVars, snapVars, castVars,
      tables, registry, conn, life, loop, pure, model>>

\* a row is stored before the program synchronizes the schema
HookInsertRow(row) ==
    /\ migration.phase = "idle"
    /\ table.cols # <<>>
    /\ Cardinality(table.rows) < MaxRows
    /\ \A r \in table.rows : r[1] # row[1]
    /\ \A i \in DOMAIN table.cols : table.cols[i].notnull => row[i] # Null
    /\ table' = [table EXCEPT !.rows = @ \cup {row}]
    /\ UNCHANGED <<hooksFrame, tempTable, synced, prep, migration>>

\* what a pass of prepare leaves in prep and synced
Pass(r, t, dropKeys) ==
    /\ table' = r.table
    /\ tempTable' = r.temp
    /\ prep' = [done |-> TRUE, ok |-> r.ok, stmts |-> r.stmts,
                branch |-> r.branch, insertFailed |-> r.insertFailed,
                before |-> t, wasSynced |-> synced.on,
                wasBranch |-> synced.branch, dropKeys |-> dropKeys]
    /\ synced' = IF ~r.ok THEN [on |-> FALSE, branch |-> "none"]
                 ELSE IF synced.on THEN synced
                 ELSE [on |-> TRUE, branch |-> r.branch]

\* prepare(T): the synchronization, then this.migrate(table, hooks), not awaited
PrepareOuter ==
    /\ migration.phase = "idle"
    /\ \E r \in {SQLitePrepare(table, model, <<>>)} :
         /\ Pass(r, table, <<>>)
         /\ migration' = [migration EXCEPT
                            !.phase = IF r.ok THEN "hooks" ELSE "done",
                            !.outer = IF r.ok THEN "resolved" ELSE "rejected",
                            !.columns = table.cols,
                            !.passes = 1]
    /\ UNCHANGED hooksFrame

\* Driver.migrate: the next migration with its hooks before and after
RunHook ==
    /\ migration.phase = "hooks"
    /\ migration.next <= Len(migration.hooks)
    /\ LET keys == migration.hooks[migration.next]
       IN migration' =
            IF HookBefore(keys, migration.columns)
            THEN [migration EXCEPT !.next = @ + 1,
                                   !.ran[migration.next] = @ + 1,
                                   !.dropKeys = HookAfter(keys, @)]
            ELSE [migration EXCEPT !.next = @ + 1]
    /\ UNCHANGED <<hooksFrame, table, tempTable, synced, prep>>

\* finalize: if (!dropKeys.length) return; this.prepare(table, dropKeys) --
\* and that prepare returns at `if (dropKeys) return`
Finalize ==
    /\ migration.phase = "hooks"
    /\ migration.next > Len(migration.hooks)
    /\ IF migration.dropKeys = <<>>
       THEN /\ migration' = [migration EXCEPT !.phase = "done"]
            /\ UNCHANGED <<table, tempTable, synced, prep>>
       ELSE \E r \in {SQLitePrepare(table, model, migration.dropKeys)} :
              /\ Pass(r, table, migration.dropKeys)
              /\ migration' = [migration EXCEPT !.phase = "done",
                                                !.passes = @ + 1,
                                                !.received = migration.dropKeys]
    /\ UNCHANGED hooksFrame

NextHooks ==
    \/ \E row \in RowsOf(table.cols) : HookInsertRow(row)
    \/ PrepareOuter
    \/ RunHook
    \/ Finalize

SpecHooks == InitHooks /\ [][NextHooks]_vars

(***************************************************************************)
(* What a query means, read off the query itself (no compilation, no       *)
(* reduction): three-valued, a comparison with NULL is unknown, and a row  *)
(* matches when the query is true of it.                                   *)
(***************************************************************************)
RECURSIVE RefField(_, _)
RefField(fq, x) ==
    LET cmp(b) == IF x = Null THEN "U" ELSE Bool3(b)
        kid(i) == RefField(FObject(<<fq.kids[i]>>), x)
    IN CASE fq.t = "array" -> IF fq.vals = <<>> THEN "F" ELSE cmp(x \in Range(fq.vals))
         [] fq.t = "scalar" -> cmp(x = fq.v)
         [] fq.t = "null" -> Bool3(x = Null)
         [] fq.t = "object" /\ Len(fq.kids) # 1 ->
              And3({kid(i) : i \in 1 .. Len(fq.kids)})
         [] OTHER ->
              LET e == fq.kids[1]
              IN CASE e.t = "$eq" -> cmp(x = e.v)
                   [] e.t = "$ne" -> cmp(x # e.v)
                   [] e.t = "$gt" -> cmp(x > e.v)
                   [] e.t = "$gte" -> cmp(x >= e.v)
                   [] e.t = "$lt" -> cmp(x < e.v)
                   [] e.t = "$lte" -> cmp(x <= e.v)
                   [] e.t = "$in" ->
                        IF e.vals = <<>> THEN "F" ELSE cmp(x \in Range(e.vals))
                   [] e.t = "$nin" ->
                        IF e.vals = <<>> THEN "T" ELSE cmp(x \notin Range(e.vals))
                   [] e.t = "$exists" -> Bool3((x # Null) = (e.v = 1))
                   [] e.t = "$not" -> Not3(RefField(e.kids[1], x))
                   [] e.t = "$and" ->
                        And3({RefField(e.kids[i], x) : i \in 1 .. Len(e.kids)})
                   [] e.t = "$or" ->
                        Or3({RefField(e.kids[i], x) : i \in 1 .. Len(e.kids)})

RECURSIVE RefQuery(_, _)
RefQuery(q, row) ==
    And3({LET e == q.kids[i]
          IN CASE e.t = "$not" -> Not3(RefQuery(e.kids[1], row))
               [] e.t = "$and" ->
                    And3({RefQuery(e.kids[j], row) : j \in 1 .. Len(e.kids)})
               [] e.t = "$or" ->
                    Or3({RefQuery(e.kids[j], row) : j \in 1 .. Len(e.kids)})
               [] e.t = "field" -> RefField(e.kids[1], row[e.key])
          : i \in 1 .. Len(q.kids)})

Matched(q, row) == RefQuery(q, row) = "T"

\* get(T, query) on the present database, by the driver in use
GetNow(q) ==
    (IF driver = "sqlite" THEN SQLiteGet(Db(rows, seq), q)
     ELSE MySQLGet(Db(rows, seq), q)).got

\* the row of a set of rows with a given id, as a set
WithId(S, id) == {r \in S : r.id = id}

DistinctKeys(items) ==
    \A i, j \in 1 .. Len(items) : i # j => items[i]["id"] # items[j]["id"]

\* merge(previous row or model default row, item)
Upserted(prevRows, item) ==
    LET prev == WithId(prevRows, item["id"])
    IN Merge(IF prev = {} THEN ModelCreate(EmptyObj) ELSE CHOOSE r \in prev : TRUE, item)

C2_ZeroFilterShortCircuit ==
    (op \in {"remove", "set", "get"} /\ ParseQuery(opQuery) = Sql0) =>
        /\ ok
        /\ stmts = <<>>
        /\ Db(rows, seq) = before
        /\ got = {}

C2_Witness ==
    /\ op = "set" /\ ParseQuery(opQuery) = Sql0
    /\ driver = "mysql"
    /\ before.rows # {}

(***************************************************************************)
(* C3: after set(T, query, update) every row that matched has the update's *)
(* fields set and its other fields unchanged, every other row is           *)
(* unchanged and the number of rows is unchanged -- for any update object, *)
(* one that assigns a primary key included.                                *)
(***************************************************************************)
C3_SetUpdatesMatched ==
    (op = "set" /\ ok) =>
        /\ rows = {IF Matched(opQuery, r) THEN Merge(r, opObj) ELSE r : r \in before.rows}
        /\ Cardinality(rows) = Cardinality(before.rows)

(***************************************************************************)
(* C4: after remove(T, query), get(T, {}) returns exactly the rows that    *)
(* were there before and did not match query; remove(T, {}) leaves none,   *)
(* and a query matching no row removes nothing.                            *)
(***************************************************************************)
C4_RemoveMatched ==
    (op = "remove" /\ ok) =>
        /\ GetNow(QExpr(<<>>)) = {r \in before.rows : ~Matched(opQuery, r)}
        /\ (opQuery = QExpr(<<>>) => GetNow(QExpr(<<>>)) = {})
        /\ ((\A r \in before.rows : ~Matched(opQuery, r)) =>
               GetNow(QExpr(<<>>)) = before.rows)

\* a remove that took some rows and left others
C4_Witness ==
    /\ op = "remove" /\ ok
    /\ rows # {}
    /\ rows # before.rows

SetMin(S) == CHOOSE x \in S : \A y \in S : x <= y

\* the calls whose INSERT has run
Answered == {c \in DOMAIN calls : calls[c].pc \in {"executed", "returned"}}

(***************************************************************************)
(* C6: create calls started concurrently on the auto-increment table each  *)
(* return a distinct id, the id a call returns is the id of the row that   *)
(* call inserted, and once all have returned the table holds one row per   *)
(* call, with consecutive ids.                                             *)
(***************************************************************************)
C6_ConcurrentCreate ==
    /\ \A c, d \in Answered : c # d => calls[c].ret["id"] # calls[d].ret["id"]
    /\ \A c \in Answered :
         /\ calls[c].row \in rows
         /\ calls[c].ret = calls[c].row
    /\ (calls # <<>> /\ \A c \in DOMAIN calls : calls[c].pc = "returned") =>
         LET ids == {r.id : r \in rows}
         IN /\ Cardinality(rows) = MaxCalls
            /\ Cardinality(ids) = MaxCalls
            /\ ids = SetMin(ids) .. SetMax(ids)
            /\ rows = {calls[c].row : c \in DOMAIN calls}

\* all calls returned, the server having run them in another order than
\* they were started in the caller's loop
C6_Witness ==
    /\ driver = "mysql"
    /\ calls # <<>>
    /\ \A c \in DOMAIN calls : calls[c].pc = "returned"
    /\ calls[1].ret["id"] > calls[2].ret["id"]
    /\ seq > MaxCalls

\* the database after the first k issued operations, run in issue order
RECURSIVE InOrder(_)
InOrder(k) ==
    IF k = 0 THEN Db({}, 0) ELSE Execute(issued[k], InOrder(k - 1)).db

(***************************************************************************)
(* C7: within one driver instance operations take effect in the order the  *)
(* caller issued them: an operation issued later never reaches the         *)
(* database before one issued earlier, and a get returns the rows left by  *)
(* exactly the operations issued before it -- in the MySQL driver too,     *)
(* where get goes through the batch queue and set, remove and create call  *)
(* the pool directly.                                                      *)
(***************************************************************************)
C7_ProgramOrder ==
    /\ \A a, b \in DOMAIN poolLog : a < b => poolLog[a] < poolLog[b]
    /\ \A j \in Range(poolLog) : \A i \in 1 .. j - 1 : i \in Range(poolLog)
    /\ \A i \in DOMAIN results : results[i] = InOrder(i - 1).rows

LegacyOnly(f, cols) ==
    /\ ~f.deprecated
    /\ ColIndex(cols, f.name) = 0
    /\ FindColumn(cols, f.legacy) # 0

(***************************************************************************)
(* C9: when a declared field matches a live column only through a legacy   *)
(* alias, prepare renames that column to the field's name and keeps the    *)
(* data: every row is still there and holds in the declared field what it  *)
(* held in the legacy column -- for any declared model, one that declares  *)
(* further fields without a live column included.                          *)
(***************************************************************************)
C9_LegacyRename ==
    prep.done =>
        \A k \in DOMAIN model :
            LegacyOnly(model[k], prep.before.cols) =>
                LET f == model[k]
                    from == FindColumn(prep.before.cols, f.legacy)
                    to == ColIndex(table.cols, f.name)
                IN /\ prep.ok
                   /\ to # 0
                   /\ ColIndex(table.cols, prep.before.cols[from].name) = 0
                   /\ {<<row[ColIndex(table.cols, "id")], row[to]>> : row \in table.rows}
                        = {<<row[ColIndex(prep.before.cols, "id")], row[from]>> :
                              row \in prep.before.rows}

(***************************************************************************)
(* C10: when the INSERT that copies the rows into T_temp fails during a    *)
(* SQLite migration, prepare drops T_temp and rethrows: afterwards T has   *)
(* the columns and rows it had and there is no T_temp.                     *)
(***************************************************************************)
C10_InsertFailureCleansUp ==
    (prep.done /\ prep.insertFailed) =>
        /\ ~prep.ok
        /\ prep.stmts = <<"CREATE temp", "INSERT", "DROP temp">>
        /\ table = prep.before
        /\ table.cols # <<>>
        /\ tempTable = NoTable

\* the INSERT failed on a NULL copied into a NOT NULL column
C10_Witness ==
    /\ prep.done /\ prep.insertFailed
    /\ table.rows # {}
    /\ Len(model) = 2

\* the batches that hold task t, and the places of t in a batch
BatchesOf(t) == {b \in DOMAIN batches : \E i \in DOMAIN batches[b].tasks : batches[b].tasks[i] = t}

PlacesOf(t, b) == {i \in DOMAIN batches[b].tasks : batches[b].tasks[i] = t}

(***************************************************************************)
(* C11: in the MySQL batch queue every task is submitted in exactly one    *)
(* batch, the statements of one tick going out together in their order, a  *)
(* flush that finds the list empty submits nothing, every task is settled  *)
(* at most once -- exactly once when nothing is pending any more -- and a  *)
(* resolved task holds the result of its own statement: the result at its  *)
(* own place in its own batch.                                             *)
(***************************************************************************)
C11_BatchDemux ==
    /\ \A b \in DOMAIN batches :
         /\ batches[b].tasks # <<>>
         /\ \A i \in DOMAIN batches[b].tasks :
              i > 1 => batches[b].tasks[i] = batches[b].tasks[i - 1] + 1
    /\ \A t \in DOMAIN tasks :
         /\ tasks[t].settled <= 1
         /\ (tasks[t].state # "pending") = (tasks[t].settled = 1)
         /\ Cardinality(BatchesOf(t)) + Cardinality({i \in DOMAIN queryTasks : queryTasks[i] = t}) = 1
         /\ \A b \in BatchesOf(t) :
              /\ Cardinality(PlacesOf(t, b)) = 1
              /\ (batches[b].state = "inflight") = (tasks[t].state = "pending")
              /\ tasks[t].state = "resolved" =>
                   \A i \in PlacesOf(t, b) :
                       tasks[t].value = StmtResult(tasks[t].sql, b, i)
    /\ (ticks = 0 /\ \A b \in DOMAIN batches : batches[b].state # "inflight") =>
         \A t \in DOMAIN tasks : tasks[t].settled = 1

\* a batch of one task and a batch of two, answered in the other order
C11_Witness ==
    /\ Len(batches) = 2
    /\ Len(batches[1].tasks) = 2 /\ batches[1].state = "inflight"
    /\ Len(batches[2].tasks) = 1 /\ batches[2].state = "done"
    /\ ~batches[2].direct
    /\ tasks[3].state = "resolved"

(***************************************************************************)
(* C12: when the command of a batch fails, every task of that batch is     *)
(* rejected with that one error and none of them is resolved; a task       *)
(* enqueued after the batch was drained is not touched by the failure.     *)
(***************************************************************************)
C12_BatchFailure ==
    \A b \in DOMAIN batches :
        batches[b].state = "failed" =>
            /\ \A i \in DOMAIN batches[b].tasks :
                 LET t == tasks[batches[b].tasks[i]]
                 IN t.state = "rejected" /\ t.value = QueryError(b)
            /\ \A t \in DOMAIN tasks :
                 t \notin Range(batches[b].tasks) => tasks[t].value # QueryError(b)

\* a batch of two tasks failed, a task enqueued after it was drained is
\* resolved
C12_Witness ==
    /\ Len(batches) = 2
    /\ Len(batches[1].tasks) = 2 /\ batches[1].state = "failed"
    /\ batches[2].state = "done"
    /\ tasks[3].state = "resolved"

(***************************************************************************)
(* C13: every driver operation is all-or-nothing: an operation that        *)
(* rejects leaves the table as it was before the call; in particular a     *)
(* SQLite upsert over several items never ends with some of its inserts    *)
(* or updates applied and the others not.                                  *)
(***************************************************************************)
C13_AllOrNothing ==
    (op # "none" /\ ~ok) => Db(rows, seq) = before

(***************************************************************************)
(* The error a rejected INSERT surfaces as.  The engine reports the        *)
(* violated key its own way; MySQLDriver.query turns the code ER_DUP_ENTRY *)
(* into RuntimeError('duplicate-entry'), SQLiteDriver.#exec logs the       *)
(* statement and throws the error it caught.                               *)
(***************************************************************************)
JsError(name, code, message) == [name |-> name, code |-> code, message |-> message]

\* what the engine of a driver raises on an INSERT with an existing key
EngineDuplicate(d) ==
    IF d = "mysql" THEN JsError("Error", "ER_DUP_ENTRY", "Duplicate entry")
    ELSE JsError("Error", "undefined", "UNIQUE constraint failed")

\* new RuntimeError(code, message)
RuntimeError(code, message) == JsError("RuntimeError", code, message)

\* MySQLDriver.query: the error the promise is rejected with
MySQLQueryError(err) ==
    IF err.code = "ER_DUP_ENTRY" THEN RuntimeError("duplicate-entry", err.message)
    ELSE err

\* SQLiteDriver.#exec: catch (e) { logger.warn(...); throw e }
SQLiteExecError(e) == e

\* the error the create that just rejected was rejected with
CreateError ==
    IF driver = "mysql" THEN MySQLQueryError(EngineDuplicate(driver))
    ELSE SQLiteExecError(EngineDuplicate(driver))

(***************************************************************************)
(* C14: a create whose primary key equals that of an existing row rejects  *)
(* with a duplicate-entry error, in both drivers, and leaves the table as  *)
(* it was.                                                                 *)
(***************************************************************************)
C14_DuplicateEntry ==
    (op = "create" /\ ~ok) =>
        /\ CreateError = RuntimeError("duplicate-entry", CreateError.message)
        /\ Db(rows, seq) = before

C16_MemoryBypass ==
    path = ":memory:" =>
        /\ Pending("export") = {}
        /\ file = <<>>
        /\ sqliteDb.gen = 0

(***************************************************************************)
(* C17: stop() flushes the outstanding snapshot: when stop() has resolved  *)
(* no snapshot task is pending and every write issued before that is in a  *)
(* snapshot that has run, and no snapshot task ever runs against a closed  *)
(* handle.                                                                 *)
(***************************************************************************)
C17_StopFlushes ==
    path = "data.db" =>
        /\ snapLog.onClosed = 0
        /\ stopState = "stopped" =>
             /\ Pending("export") = {}
             /\ snapLog.writes > 0 =>
                  (file # <<>> /\ file[Len(file)].data = snapLog.writes)

RECURSIVE HasUnknown(_)
\* the query holds, at any depth, an operator of a field query that
\* Builder.queryOperators does not have
HasUnknown(q) ==
    \/ q.t \notin {"expr", "field", "array", "scalar", "null", "object"} \cup QueryOperators
    \/ \E i \in DOMAIN q.kids : HasUnknown(q.kids[i])

(***************************************************************************)
(* C18: a query that uses an unknown operator is rejected when it is       *)
(* compiled: a remove or set with such a query, on a table that holds     *)
(* rows, rejects and changes no row.                                       *)
(***************************************************************************)
C18_UnknownOperatorRejected ==
    (op \in {"remove", "set"} /\ HasUnknown(opQuery) /\ before.rows # {}) =>
        /\ ~ok
        /\ Db(rows, seq) = before

(***************************************************************************)
(* C19: for every field type with a caster (boolean, json, list, date,     *)
(* time, timestamp) and every non-null value x of the type,                *)
(* load(dump(x)) = x; for list fields x is any list of strings.            *)
(***************************************************************************)
C19_CastRoundTrip ==
    (cast.phase = "loaded" /\ cast.type \in CastTypes) => cast.loaded = cast.x

\* the keys of the items of the upsert
ItemKeys == {opItems[i]["id"] : i \in 1 .. Len(opItems)}

\* no item with the key k mentions the field f
Unmentioned(k, f) ==
    \A i \in 1 .. Len(opItems) : opItems[i]["id"] = k => ~Has(opItems[i], f)

SameId(S, r) == {r2 \in S : r2.id = r.id}

(***************************************************************************)
(* C21: when the update of a set holds eval expressions that refer to the  *)
(* row, every matching row gets, in each field of the update, the value of *)
(* that field's expression on the row's own values before the operation    *)
(* and keeps its other fields; the rows that do not match are unchanged    *)
(* and no identifier of the query is turned into a row.                    *)
(***************************************************************************)
C21_EvalOnOwnRow ==
    (op = "set" /\ ok) =>
        /\ {r.id : r \in rows} = {r.id : r \in before.rows}
        /\ \A r \in before.rows :
             IF ~Matched(opQuery, r) THEN r \in rows
             ELSE \A r2 \in SameId(rows, r) :
                    \A f \in Fields :
                        r2[f] = IF \E i \in DOMAIN opObj : opObj[i].field = f
                                THEN ExecuteEval(r, opObj[CHOOSE i \in DOMAIN opObj :
                                                            opObj[i].field = f].expr)
                                ELSE r[f]

\* every field the items touch is the match key
KeysOnly(items) == \A i \in 1 .. Len(items) : DOMAIN items[i] = {Primary}

(***************************************************************************)
(* C22: when every field touched by the items of an upsert is a match key  *)
(* (the items carrying pairwise different keys), the call completes        *)
(* without error in both drivers, the rows that existed keep all their     *)
(* values and every item without a matching row is inserted.               *)
(***************************************************************************)
C22_KeysOnlyUpsert ==
    (op = "upsert" /\ KeysOnly(opItems) /\ DistinctKeys(opItems)) =>
        /\ ok
        /\ before.rows \subseteq rows
        /\ \A i \in 1 .. Len(opItems) : WithId(rows, opItems[i]["id"]) # {}

(***************************************************************************)
(* C23: drop(table) drops the named table and leaves every other table     *)
(* and its rows untouched; drop() drops the tables of the registry and no  *)
(* table that is not registered -- in both drivers.  Every registered      *)
(* table is taken to be live when drop is called.                          *)
(***************************************************************************)
C23_DropExact ==
    (op = "drop" /\ registry \subseteq DOMAIN tables.was) =>
        tables.live = Without(tables.was,
                              IF tables.arg = NoArg THEN registry ELSE {tables.arg})

(***************************************************************************)
(* C24: stop() is idempotent in both drivers: a stop() after a completed   *)
(* stop(), and a stop() on a driver that was never started, completes      *)
(* without raising and leaves the state as it was.                         *)
(***************************************************************************)
C24_StopIdempotent ==
    \A i \in 1 .. Len(life) :
        (life[i].call = "stop" /\ life[i].from \in {"undefined", "closed"}) =>
            (life[i].ok /\ life[i].to = life[i].from)

(***************************************************************************)
(* C25: an operation (get, set, remove, eval, upsert; both drivers) that   *)
(* fails with an error thrown while compiling its query has submitted no   *)
(* statement.  In the model an operation rejects only on such an error.    *)
(***************************************************************************)
C25_CompileErrorBeforeIO ==
    loop.status = "rejected" => loop.stmts = 0

(***************************************************************************)
(* C30: a SQLite upsert terminates for every data list and every keys list *)
(* of at least one key; when it has resolved, every item was processed     *)
(* exactly once, in list order, and no chunk was larger than               *)
(* floor(960 / |keys|).                                                    *)
(***************************************************************************)
C30_ChunkedUpsertTerminates ==
    /\ [](  (driver = "sqlite" /\ loop.op = "upsert" /\ loop.status = "resolved")
         => /\ loop.processed = InOrderOf(1 .. Len(loop.data))
            /\ loop.maxChunk <= StepOf(loop.nkeys))
    /\ (loop.status = "running") ~> (loop.status # "running")

\* the conjunction and the disjunction written out, nothing reduced
UnreducedAnd(conditions) == SqlAnd(conditions)

UnreducedOr(conditions) == SqlOr(conditions)

RECURSIVE Unreduced(_)
\* the filter of a query with every $and and $or written out in full
Unreduced(query) ==
    UnreducedAnd(MapSeq(
      LAMBDA e :
        CASE e.t = "$and" -> UnreducedAnd(MapSeq(LAMBDA q : Unreduced(q), e.kids))
          [] e.t = "$or" -> UnreducedOr(MapSeq(LAMBDA q : Unreduced(q), e.kids))
          [] e.t = "field" -> ParseFieldQuery(e.key, e.kids[1]),
      query.kids))

\* the filter f has the truth value v on every row
Constantly(f, v) == \A r \in Rows : SqlEval(f, r) = v

\* f has on every row the value of g
SameFilter(f, g) == \A r \in Rows : SqlEval(f, r) = SqlEval(g, r)

(***************************************************************************)
(* C26: logicalAnd([]) is '1', logicalAnd of children one of which is '0'  *)
(* is '0', and otherwise it is the children joined with AND; logicalOr([]) *)
(* is '0', logicalOr of children one of which is '1' is '1', and otherwise *)
(* it is the children joined with OR in parentheses; parseQuery({}) is     *)
(* '1'; and for every tree of $and, $or and field queries parseQuery gives *)
(* '0' only when the filter written out in full is false on every row, and *)
(* '1' only when it is true on every row.                                  *)
(***************************************************************************)
C26_ConstantReduction ==
    /\ (pure.fn = "logicalAnd" /\ pure.done) =>
         IF pure.conditions = <<>> THEN pure.out = Sql1
         ELSE IF Sql0 \in Range(pure.conditions) THEN pure.out = Sql0
         ELSE /\ SameFilter(pure.out, UnreducedAnd(pure.conditions))
              /\ IF Len(pure.conditions) = 1 THEN pure.out = pure.conditions[1]
                 ELSE pure.out.s = "and"
    /\ (pure.fn = "logicalOr" /\ pure.done) =>
         IF pure.conditions = <<>> THEN pure.out = Sql0
         ELSE IF Sql1 \in Range(pure.conditions) THEN pure.out = Sql1
         ELSE pure.out = SqlOr(pure.conditions)
    /\ (pure.fn = "parseQuery" /\ pure.done) =>
         /\ pure.query = QExpr(<<>>) => pure.out = Sql1
         /\ pure.out = Sql0 => Constantly(Unreduced(pure.query), "F")
         /\ pure.out = Sql1 => Constantly(Unreduced(pure.query), "T")

\* {$and: [{id: 1}], $or: [{id: []}]} has been reduced to '0'
C26_Witness ==
    /\ pure.fn = "parseQuery"
    /\ pure.done
    /\ pure.out = Sql0
    /\ Len(pure.query.kids) = 2
    /\ pure.query.kids[2].t = "$or"
    /\ ~Constantly(ParseQuery(pure.query.kids[1].kids[1]), "F")

\* the names of the drop-list of the last prepare
Dropped == IF "dropKeys" \in DOMAIN prep THEN Range(prep.dropKeys) ELSE {}

\* no declared field that is not deprecated has found live column i
Unmapped(columns, i) ==
    \A k \in DOMAIN model :
        model[k].deprecated \/ FindColumn(columns, <<model[k].name>> \o model[k].legacy) # i

\* column j of table t holds, row by row, what column i of table s holds
Carried(s, i, t, j) ==
    {<<row[1], row[i]>> : row \in s.rows} = {<<row[1], row[j]>> : row \in t.rows}

RECURSIVE Total(_, _)
\* the sum of field f over the rows of S, NULL counting as nothing
Total(S, f) ==
    IF S = {} THEN 0
    ELSE LET r == CHOOSE x \in S : TRUE
         IN (IF r[f] = Null THEN 0 ELSE r[f]) + Total(S \ {r}, f)

\* the number of distinct values of field f in the rows of S that are not NULL
Distinct(S, f) == Cardinality({r[f] : r \in S} \ {Null})

RECURSIVE Expected(_, _)
\* what the claim gives for an expression on the rows of S
Expected(S, expr) ==
    CASE expr.e = "lit" -> expr.v
      [] expr.e = "$sum" -> Total(S, expr.f)
      [] expr.e = "$count" -> Distinct(S, expr.f)
      [] expr.e = "$subtract" -> Expected(S, expr.args[1]) - Expected(S, expr.args[2])

(***************************************************************************)
(* C28: eval(T, {$sum: f}) is the sum of f over all rows of T, a NULL      *)
(* contributing nothing; eval(T, {$count: f}) is the number of distinct    *)
(* values of f that are not NULL; a $sum minus a $count is their           *)
(* difference; and a plain literal evaluates to itself.                    *)
(***************************************************************************)
C28_EvalAggregates ==
    op = "eval" =>
        /\ ok
        /\ ~ret.undefined
        /\ ret.value = Expected(before.rows, opObj)

\* the live column that the declared field k found before the last prepare
\* (0 if none): by name or legacy alias in SQLite, by name in MySQL
FoundBefore(k) ==
    IF driver = "sqlite"
    THEN FindColumn(prep.before.cols, <<model[k].name>> \o model[k].legacy)
    ELSE ColIndex(prep.before.cols, model[k].name)

\* the type the driver declares for field k
TypeDefOf(k) ==
    IF driver = "sqlite" THEN SQLiteColumnDef(model[k]).type ELSE MySQLColumnDef(model[k]).type

\* every live column that a declared field found has its name and its type
AllMatch ==
    \A k \in DOMAIN model :
        (~model[k].deprecated /\ FoundBefore(k) # 0) =>
            /\ prep.before.cols[FoundBefore(k)].name = model[k].name
            /\ driver = "sqlite" => prep.before.cols[FoundBefore(k)].type = TypeDefOf(k)

(***************************************************************************)
(* C29: when prepare(T) returns without error, every declared field that   *)
(* is not deprecated is a live column under its declared name (so a newly  *)
(* declared field has been added); a table without live columns has been   *)
(* created by a single CREATE TABLE; live columns that match by name and   *)
(* type have caused no migration; and T has as many rows as before.        *)
(***************************************************************************)
C29_PreparePostcondition ==
    (prep.done /\ prep.ok) =>
        /\ \A k \in DOMAIN model :
               ~model[k].deprecated => model[k].name \in Names(table.cols)
        /\ prep.before.cols = <<>> => prep.stmts = <<"CREATE">>
        /\ (prep.before.cols # <<>> /\ AllMatch) => prep.branch # "migrate"
        /\ Cardinality(table.rows) = Cardinality(prep.before.rows)

\* a field declared after the table was filled has been added to it
C29_Witness ==
    /\ prep.done
    /\ prep.ok
    /\ prep.branch = "alter"
    /\ prep.before.rows # {}
    /\ \E k \in DOMAIN model :
         /\ ~model[k].deprecated
         /\ FoundBefore(k) = 0
         /\ model[k].name \in Names(table.cols)

\* the keys of the hooks whose before holds on the columns of the outer pass
Contributed ==
    UNION {Range(migration.hooks[i]) :
             i \in {k \in DOMAIN migration.hooks :
                      HookBefore(migration.hooks[k], migration.columns)}}

(***************************************************************************)
(* C31: SQLite prepare invokes the migration hooks once; it re-enters      *)
(* prepare(T, dropKeys) if and only if a hook contributed drop keys, with  *)
(* all the keys accumulated; the re-entered call invokes no hook and does  *)
(* not re-enter, so there are at most two passes; and when the outer       *)
(* prepare has resolved, the columns named in the drop keys are removed.   *)
(***************************************************************************)
C31_HooksOnceThenDrop ==
    /\ \A i \in DOMAIN migration.ran : migration.ran[i] <= 1
    /\ migration.passes <= 2
    /\ migration.phase = "done" =>
         /\ migration.passes = 2 <=> migration.dropKeys # <<>>
         /\ migration.passes = 2 => Range(migration.received) = Contributed
    /\ migration.outer = "resolved" =>
         \A i \in DOMAIN migration.dropKeys : migration.dropKeys[i] \notin Names(table.cols)

(***************************************************************************)
(* C32: for a file-backed path, once no write and no file operation is     *)
(* outstanding the file holds the serialization of the database after the  *)
(* last write: a snapshot of an earlier state never overwrites a later     *)
(* one; and the handle initialized from the serialized bytes holds what    *)
(* the replaced handle held.                                               *)
(***************************************************************************)
C32_SnapshotConsistent ==
    (/\ path = "data.db"
     /\ snapLog.writes > 0
     /\ snapLog.onClosed = 0
     /\ Pending("export") = {}
     /\ Outstanding = {}) =>
        /\ disk.exists
        /\ disk.data = snapLog.writes
        /\ sqliteDb.data = snapLog.writes

(***************************************************************************)
(* C33: in MySQL upsert, for items with pairwise different key tuples, the *)
(* nested IF chain of every update field selects, on the row that          *)
(* conflicts with item i, item i's own expression for the field: the       *)
(* inserted value for a constant, the compiled eval expression, the        *)
(* column itself when the item does not mention the field.                 *)
(***************************************************************************)
C33_IfChainSelectsOwn ==
    pure.done =>
      \A f \in DOMAIN pure.assigned :
        pure.assigned[f] = ToUpdateExprEval(pure.data[pure.hit], f)

\* three items with three different expressions for text, and the row of an
\* item whose expression is not the innermost one of the chain
C33_Witness ==
    /\ pure.done
    /\ Len(pure.data) = 3
    /\ "text" \in DOMAIN pure.assigned
    /\ Len(UpdateEntriesEval(pure.data, "text", pure.keys)) >= 3
    /\ pure.assigned["text"] # UpdateEntriesEval(pure.data, "text", pure.keys)[1].expr
    /\ pure.assigned["text"] = ToUpdateExprEval(pure.data[pure.hit], "text")

RECURSIVE UpsertOneByOne(_, _, _, _)
\* upsert(T, [data[0]], keys), upsert(T, [data[1]], keys), ... each awaited
\* before the next is called, on the driver d
UpsertOneByOne(d, db, data, keys) ==
    IF data = <<>> THEN [db |-> db, ok |-> TRUE]
    ELSE LET r == IF d = "sqlite" THEN SQLiteUpsert(db, <<Head(data)>>, keys)
                  ELSE MySQLUpsert(db, <<Head(data)>>, keys)
         IN IF ~r.ok THEN [db |-> r.db, ok |-> FALSE]
            ELSE UpsertOneByOne(d, r.db, Tail(data), keys)

(***************************************************************************)
(* C34: a batch upsert is equivalent to upserting its items one at a time  *)
(* in list order: whenever the one-at-a-time sequence completes, the batch *)
(* completes and leaves the table with the same rows, also for lists in    *)
(* which two items carry the same key tuple.                               *)
(***************************************************************************)
C34_BatchAsOneByOne ==
    (/\ op = "upsert"
     /\ UpsertOneByOne(driver, before, opItems, <<Primary>>).ok) =>
        /\ ok
        /\ rows = UpsertOneByOne(driver, before, opItems, <<Primary>>).db.rows

\* the UPDATE that #update emits for the fetched row data selects that row
\* and no other
HitsFetchedRow(db, indexFields, update, data) ==
    LET row == ExecuteUpdate(data, update)
        filter == ParseQuery(KeyQuery(row, indexFields))
    IN {r.id : r \in Where(db.rows, filter)} = {data.id}

RECURSIVE SetUpdatesHit(_, _, _, _)
\* every UPDATE of the loop of set selects the row it was computed from
SetUpdatesHit(db, data, updateFields, update) ==
    IF data = <<>> THEN TRUE
    ELSE /\ HitsFetchedRow(db, <<Primary>>, update, Head(data))
         /\ LET r == SQLiteUpdate(db, <<Primary>>, updateFields, update, Head(data))
            IN r.ok => SetUpdatesHit(r.db, Tail(data), updateFields, update)

RECURSIVE UpsertUpdatesHit(_, _, _, _, _)
\* every UPDATE of a chunk of upsert selects the row it was computed from
UpsertUpdatesHit(db, chunk, fetched, keys, updateFields) ==
    IF chunk = <<>> THEN TRUE
    ELSE LET item == Head(chunk)
             found == SelectSeq(fetched,
                        LAMBDA row : \A k \in Range(keys) :
                                       Has(item, k) /\ row[k] = item[k])
         IN IF found # <<>>
            THEN /\ HitsFetchedRow(db, keys, item, found[1])
                 /\ LET r == SQLiteUpdate(db, keys, updateFields, item, found[1])
                    IN r.ok => UpsertUpdatesHit(r.db, Tail(chunk), fetched, keys, updateFields)
            ELSE LET r == SQLiteCreateRow(db, ExecuteUpdate(ModelCreate(EmptyObj), item))
                 IN r.ok => UpsertUpdatesHit(r.db, Tail(chunk), fetched, keys, updateFields)

(***************************************************************************)
(* C35: every UPDATE the SQLite driver emits on behalf of set or upsert    *)
(* modifies exactly one row, the fetched row its new values were computed  *)
(* from: its WHERE clause selects that row and no other, also when the     *)
(* update assigns a new value to an index field.                           *)
(***************************************************************************)
C35_UpdateHitsFetchedRow ==
    driver = "sqlite" =>
      /\ op = "set" =>
           SetUpdatesHit(before, SortById(SQLiteGet(before, opQuery).got),
                         KeysOf(opObj), opObj)
      /\ (op = "upsert" /\ opItems # <<>>) =>
           LET dataFields == DataFieldsOf(opItems, <<>>)
               diff == Difference(dataFields, <<Primary>>)
               fetched == SQLiteGet(before,
                            QExpr(<<QOr(MapSeq(LAMBDA item : KeyQuery(item, <<Primary>>),
                                               opItems))>>))
           IN UpsertUpdatesHit(before, opItems, SortById(fetched.got), <<Primary>>,
                               IF diff = <<>> THEN <<dataFields[1]>> ELSE diff)

====
